---- MODULE Spec2Model ----
(***************************************************************************)
(* A model of scalyr_agent/scalyr_monitor.py: the ScalyrMonitor base class *)
(* (sampling loop, counters, metric log) and MonitorConfig (typed get).    *)
(*                                                                         *)
(* Specifications:                                                         *)
(*   Spec        the sampling loop of run() with concurrent callers of     *)
(*               increment_counter and a supervisor that starts and stops  *)
(*               the monitor thread;                                       *)
(*   SpecLive    Spec with the fairness the thread scheduler gives;        *)
(*   SpecOutput  sequences of open_metric_log / close_metric_log calls;    *)
(*   SpecInit    ScalyrMonitor.__init__ choosing the sample interval;      *)
(*   SpecGet     MonitorConfig.get on drawn configurations and arguments;  *)
(*   SpecRegistry  define_config_option / define_metric / define_log_field *)
(*               calls, lookups of MonitorInformation and constructions;   *)
(*   SpecValidate  ScalyrMonitor.__init__ on a configuration validated     *)
(*               against the options registered for its module;           *)
(*   SpecFatal   Spec with failures outside the per-sample catch of run(); *)
(*   SpecConfig  reads of a constructed MonitorConfig (get, in, keys, [],  *)
(*               copy) and registrations made around its construction;     *)
(*   SpecOutputFailing  SpecOutput with a logger whose calls may raise.    *)
(***************************************************************************)
EXTENDS Integers, Sequences, FiniteSets, TLC

VARIABLES
    \* ---- ScalyrMonitor.run and its thread
    pc,                \* where the thread executing run() is
    is_running,        \* self._run_state.is_running()
    lastOutcome,       \* how the last gather_sample invocation ended
    finished,          \* 'Monitor has finished' was logged
    errorLogs,         \* calls of self._logger.exception made by run()
    \* ---- counters, protected by self.__lock
    lock,              \* the thread holding self.__lock, or NoHolder
    ipc,               \* per thread: its next step inside increment_counter
    args,              \* per thread: <<reported_lines, errors>> of its call
    tmp,               \* per thread: the value it loaded for a +=
    m_reported_lines,  \* self.__reported_lines
    m_errors,          \* self.__errors
    \* ---- history of the run (not program state; read by the properties)
    samples,           \* gather_sample invocations begun
    failed,            \* gather_sample invocations that raised
    calls,             \* increment_counter calls begun by the other callers
    sumR,              \* sum of reported_lines over all calls begun
    sumE,              \* sum of errors over all calls begun
    stopAt,            \* pc at the first stop request, or "none"
    begunAfterStop,    \* gather_sample invocations begun after that request
    \* ---- the metric log
    metric_log_open,   \* self.__metric_log_open
    sinkOpens,         \* calls of self._logger.openMetricLogForMonitor
    sinkCloses,        \* calls of self._logger.closeMetricLog
    outCalls,          \* the open_metric_log / close_metric_log calls made
    \* ---- MonitorConfig.get and ScalyrMonitor.__init__
    content,           \* the dict handed to MonitorConfig / __init__
    cfgMap,            \* MonitorConfig.__map
    getArgs,           \* the arguments of the call under study
    getOut,            \* its outcome, or NotCalled
    override,          \* __init__'s sample_interval_secs argument
    constructed,       \* "no", "ok" or "raised"
    sample_interval_secs, \* self._sample_interval_secs
    hook,              \* what the derived class's _initialize does: "ok" or "raises"
    ctorOut,           \* the outcome of the constructor call made, or NotCalled
    cfgModule,         \* the monitor_module a MonitorConfig was built with
    opOut,             \* the last read made of the MonitorConfig and its outcome
    cfgCopy,           \* the __map of the MonitorConfig copy() returned, if any
    \* ---- MonitorInformation
    monitor_info,      \* MonitorInformation.__monitor_info__
    regLog,            \* history: the set_monitor_info calls made, in order
    lookupOut,         \* the last get_monitor_info call and what it returned
    \* ---- the outer except of run()
    fatalLogs,         \* calls of self._logger.exception(..., 'failedMonitor')
    escaped            \* history: exceptions raised in run() outside the inner try

runVars == <<pc, is_running, lastOutcome, finished, errorLogs>>
ctrVars == <<lock, ipc, args, tmp, m_reported_lines, m_errors>>
histVars == <<samples, failed, calls, sumR, sumE, stopAt, begunAfterStop>>
outVars == <<metric_log_open, sinkOpens, sinkCloses, outCalls>>
cfgVars == <<content, cfgMap, getArgs, getOut, override, constructed, sample_interval_secs,
             hook, ctorOut, cfgModule, opOut, cfgCopy>>
regVars == <<monitor_info, regLog, lookupOut>>
fatalVars == <<fatalLogs, escaped>>
vars == <<runVars, ctrVars, histVars, outVars, cfgVars, regVars, fatalVars>>

----------------------------------------------------------------------------
(* Bounds of the model.                                                    *)

\* gather_sample invocations explored in one run of the loop
MaxSamples == 2
\* increment_counter calls made by callers other than the loop
MaxCalls == 2
\* open_metric_log / close_metric_log calls explored
MaxOutCalls == 6
\* set_monitor_info calls explored
MaxRegs == 3

\* The threads that call increment_counter besides the one executing run().
Callers == {"c1", "c2"}
Threads == {"run"} \cup Callers
\* The <<reported_lines, errors>> deltas the other callers pass.
Deltas == {<<1, 0>>, <<0, 1>>, <<2, 1>>}

NoHolder == "free"

----------------------------------------------------------------------------
(* Python values. A value is a record: t its type, n its number, s its     *)
(* text as a sequence of characters. A float's n counts halves (15.5 is    *)
(* 31), so an int and a float are compared through Scaled.                 *)

PyNone == [t |-> "NoneType", n |-> 0, s |-> <<>>]
PyInt(k) == [t |-> "int", n |-> k, s |-> <<>>]
PyLong(k) == [t |-> "long", n |-> k, s |-> <<>>]
PyFloat(halves) == [t |-> "float", n |-> halves, s |-> <<>>]
PyBool(b) == [t |-> "bool", n |-> IF b THEN 1 ELSE 0, s |-> <<>>]
PyStr(chars) == [t |-> "str", n |-> 0, s |-> chars]
PyUnicode(chars) == [t |-> "unicode", n |-> 0, s |-> chars]
PyList == [t |-> "list", n |-> 0, s |-> <<>>]

Numeric(v) == v.t \in {"int", "long", "float", "bool"}
Textual(v) == v.t \in {"str", "unicode"}
Scaled(v) == IF v.t = "float" THEN v.n ELSE 2 * v.n

\* A float holds every integer up to 2^53 in magnitude; above it only every
\* second, then every fourth, ... integer; above the largest float, none. The
\* model keeps these ranges with their limits scaled down: ExactLimit stands for
\* 2^53 and FloatLimit for the largest float.
ExactLimit == 64
FloatLimit == 256

Abs(k) == IF k < 0 THEN -k ELSE k

\* The distance between neighbouring floats around the integer k >= 0.
RECURSIVE Ulp(_)
Ulp(k) == IF k <= ExactLimit THEN 1 ELSE 2 * Ulp((k + 1) \div 2)

\* The float nearest to the integer k (ties go to the even significand).
RoundToFloat(k) ==
    LET mag == Abs(k)
        u == Ulp(mag)
        lo == mag - (mag % u)
        hi == lo + u
        r == IF mag % u = 0 THEN mag
             ELSE IF 2 * (mag % u) < u THEN lo
             ELSE IF 2 * (mag % u) > u THEN hi
             ELSE IF (lo \div u) % 2 = 0 THEN lo ELSE hi
    IN  IF k < 0 THEN -r ELSE r

DigitChars == <<"0", "1", "2", "3", "4", "5", "6", "7", "8", "9">>
UpperChars == <<"A", "B", "C", "D", "E", "F", "G", "H", "I", "J", "K", "L", "M",
                "N", "O", "P", "Q", "R", "S", "T", "U", "V", "W", "X", "Y", "Z">>
LowerChars == <<"a", "b", "c", "d", "e", "f", "g", "h", "i", "j", "k", "l", "m",
                "n", "o", "p", "q", "r", "s", "t", "u", "v", "w", "x", "y", "z">>
\* A character outside ASCII (e with an acute accent), as one element of a text.
NonAsciiChar == "U+00E9"
\* The characters of the model in the order of their codes.
CodeOrder == <<"+", "-", ".">> \o DigitChars \o UpperChars \o LowerChars \o <<NonAsciiChar>>

IsAscii(chars) == \A i \in DOMAIN chars : chars[i] # NonAsciiChar
\* str(v) encodes a unicode with the ascii codec: it raises UnicodeEncodeError
\* when a character is outside ASCII.
Encodable(v) == v.t # "unicode" \/ IsAscii(v.s)
\* unicode(v) decodes a str with the ascii codec: it raises UnicodeDecodeError
\* when a byte is outside ASCII.
Decodable(v) == v.t # "str" \/ IsAscii(v.s)

IndexIn(seq, c) == CHOOSE i \in DOMAIN seq : seq[i] = c
IsDigit(c) == \E i \in DOMAIN DigitChars : DigitChars[i] = c
DigitVal(c) == IndexIn(DigitChars, c) - 1
AllDigits(chars) == \A i \in DOMAIN chars : IsDigit(chars[i])

RECURSIVE NatOf(_)
NatOf(chars) ==
    IF chars = <<>> THEN 0
    ELSE 10 * NatOf(SubSeq(chars, 1, Len(chars) - 1)) + DigitVal(chars[Len(chars)])

RECURSIVE NatText(_)
NatText(k) ==
    IF k < 10 THEN <<DigitChars[k + 1]>>
    ELSE NatText(k \div 10) \o <<DigitChars[(k % 10) + 1]>>

IntText(k) == IF k < 0 THEN <<"-">> \o NatText(-k) ELSE NatText(k)

FloatText(halves) ==
    LET mag == IF halves < 0 THEN -halves ELSE halves
        body == NatText(mag \div 2) \o <<".", IF mag % 2 = 0 THEN "0" ELSE "5">>
    IN  IF halves < 0 THEN <<"-">> \o body ELSE body

\* str(value) / unicode(value)
ToText(v) ==
    CASE v.t \in {"int", "long"} -> IntText(v.n)
      [] v.t = "float" -> FloatText(v.n)
      [] v.t = "bool" -> IF v.n = 1 THEN <<"T", "r", "u", "e">>
                                    ELSE <<"F", "a", "l", "s", "e">>
      [] v.t \in {"str", "unicode"} -> v.s

\* str.lower()
LowerChar(c) ==
    IF \E i \in DOMAIN UpperChars : UpperChars[i] = c
      THEN LowerChars[IndexIn(UpperChars, c)]
      ELSE c
Lower(chars) == [i \in DOMAIN chars |-> LowerChar(chars[i])]

Signed(chars) == chars # <<>> /\ chars[1] \in {"+", "-"}
Unsigned(chars) == IF Signed(chars) THEN Tail(chars) ELSE chars
SignOf(chars) == IF Signed(chars) /\ chars[1] = "-" THEN -1 ELSE 1

\* int(text) / long(text): a sign and digits; anything else is a ValueError.
ParseInt(chars) ==
    LET body == Unsigned(chars)
        ok == body # <<>> /\ AllDigits(body)
    IN  [ok |-> ok, n |-> IF ok THEN SignOf(chars) * NatOf(body) ELSE 0]

\* The halves a fraction's digits stand for: .0 and .5 (with zeros after).
FracHalves(chars) ==
    CASE \A i \in DOMAIN chars : chars[i] = "0" -> 0
      [] chars # <<>> /\ chars[1] = "5"
            /\ \A i \in DOMAIN chars : i > 1 => chars[i] = "0" -> 1

\* float(text): a sign, digits, and at most one point with digits around it;
\* anything else is a ValueError.
ParseFloat(chars) ==
    LET body == Unsigned(chars)
        dots == {i \in DOMAIN body : body[i] = "."}
        dot == IF dots = {} THEN Len(body) + 1 ELSE CHOOSE i \in dots : TRUE
        whole == SubSeq(body, 1, dot - 1)
        frac == SubSeq(body, dot + 1, Len(body))
        ok == /\ Cardinality(dots) <= 1
              /\ AllDigits(whole) /\ AllDigits(frac)
              /\ whole \o frac # <<>>
    IN  [ok |-> ok,
         n |-> IF ok THEN SignOf(chars) * (2 * NatOf(whole) + FracHalves(frac)) ELSE 0]

RECURSIVE LexGreater(_, _)
LexGreater(a, b) ==
    IF a = <<>> THEN FALSE
    ELSE IF b = <<>> THEN TRUE
    ELSE IF a[1] = b[1] THEN LexGreater(Tail(a), Tail(b))
    ELSE IndexIn(CodeOrder, a[1]) > IndexIn(CodeOrder, b[1])

\* Values of different kinds are ordered by kind: None, numbers, then the
\* other types by their names ("list" before "str" and "unicode").
KindRank(v) ==
    CASE v.t = "NoneType" -> 0
      [] Numeric(v) -> 1
      [] v.t = "list" -> 2
      [] Textual(v) -> 3

\* a > b
Greater(a, b) ==
    IF Numeric(a) /\ Numeric(b) THEN Scaled(a) > Scaled(b)
    ELSE IF Textual(a) /\ Textual(b) THEN LexGreater(a.s, b.s)
    ELSE KindRank(a) > KindRank(b)

\* a < b
Less(a, b) == Greater(b, a)

----------------------------------------------------------------------------
(* MonitorConfig (lines 623-791) and BadMonitorConfiguration (794-798).    *)

\* The field attribute of a raised exception.
NoField == [t |-> "none", name |-> ""]
FieldName(f) == [t |-> "str", name |-> f]
FieldTuple(f) == [t |-> "tuple", name |-> f]

\* The outcome of a call: a returned value or a raised exception.
Returned(v) == [ok |-> TRUE, val |-> v, exc |-> "", kind |-> "", field |-> NoField]
Raised(exc, kind, f) == [ok |-> FALSE, val |-> PyNone, exc |-> exc, kind |-> kind, field |-> f]
\* raise BadMonitorConfiguration(message, field)
BadMonitorConfiguration(kind, f) == Raised("BadMonitorConfiguration", kind, f)
NotCalled == Raised("", "not called", NoField)
\* No read of the MonitorConfig was made yet.
NoRead == [op |-> "none", arg |-> "", ret |-> NotCalled]

\* convert_to=None
NoConvert == "None"
primitive_types == {"int", "long", "float", "str", "unicode", "bool"}

\* convert_to(value) for a text value and a numeric convert_to (lines 720-725).
ParseAs(field_name, value, convert_to) ==
    LET i == ParseInt(value.s)
        f == ParseFloat(value.s)
    IN  CASE convert_to = "int" ->
               IF i.ok THEN Returned(PyInt(i.n))
               ELSE BadMonitorConfiguration("could not parse as numeric", FieldName(field_name))
          [] convert_to = "long" ->
               IF i.ok THEN Returned(PyLong(i.n))
               ELSE BadMonitorConfiguration("could not parse as numeric", FieldName(field_name))
          [] convert_to = "float" ->
               IF f.ok THEN Returned(PyFloat(f.n))
               ELSE BadMonitorConfiguration("could not parse as numeric", FieldName(field_name))

\* str(value) on a unicode outside ASCII
UnicodeEncodeError == Raised("UnicodeEncodeError", "ascii codec cannot encode", NoField)
\* unicode(value) on a str outside ASCII
UnicodeDecodeError == Raised("UnicodeDecodeError", "ascii codec cannot decode", NoField)
\* float(value) on a long above the largest float
OverflowError == Raised("OverflowError", "long int too large to convert to float", NoField)

\* convert_to(value) for convert_to str or unicode (line 713).
text_conversion(value, convert_to) ==
    IF convert_to = "str" /\ ~Encodable(value) THEN UnicodeEncodeError
    ELSE IF convert_to = "unicode" /\ ~Decodable(value) THEN UnicodeDecodeError
    ELSE Returned([t |-> convert_to, n |-> 0, s |-> ToText(value)])

\* str(value).lower() == 'true' for a text value (line 719).
bool_conversion(value) ==
    IF ~Encodable(value) THEN UnicodeEncodeError
    ELSE Returned(PyBool(Lower(ToText(value)) = <<"t", "r", "u", "e">>))

\* float(value) for an int or a long (line 734).
float_conversion(value) ==
    IF Abs(value.n) > FloatLimit THEN OverflowError
    ELSE Returned(PyFloat(2 * RoundToFloat(value.n)))

\* A variant of numeric_conversion: a narrowing is made when the value fits.
numeric_conversionNarrowing(field_name, value, convert_to) ==
    IF convert_to = "float" /\ value.t \in {"long", "int"}
      THEN float_conversion(value)
    ELSE IF convert_to = "long" /\ value.t = "int"
      THEN Returned(PyLong(value.n))
    ELSE IF convert_to \in {"int", "long"} /\ value.t \in {"long", "float"}
            /\ Scaled(value) % 2 = 0
      THEN Returned([t |-> convert_to, n |-> Scaled(value) \div 2, s |-> <<>>])
    ELSE BadMonitorConfiguration("numeric value given but another type is required",
                                 FieldTuple(field_name))

\* A variant of numeric_conversion: int to long is not among the widenings.
numeric_conversionFloatOnly(field_name, value, convert_to) ==
    IF convert_to = "float" /\ value.t \in {"long", "int"}
      THEN float_conversion(value)
    ELSE BadMonitorConfiguration("numeric value given but another type is required",
                                 FieldTuple(field_name))

\* A number to another number type (lines 731-739).
numeric_conversion(field_name, value, convert_to) ==
    IF convert_to = "float" /\ value.t \in {"long", "int"}
      THEN float_conversion(value)
    ELSE IF convert_to = "long" /\ value.t = "int"
      THEN Returned(PyLong(value.n))
    \* line 738: the message's arguments are passed in the place of field
    ELSE BadMonitorConfiguration("numeric value given but another type is required",
                                 FieldTuple(field_name))

\* A variant of perform_conversion: a number is converted to bool by bool(),
\* True unless it is zero.
perform_conversionTruthy(field_name, value, convert_to) ==
    IF convert_to \notin primitive_types
      THEN Raised("Exception", "unsupported type for conversion", NoField)
    ELSE IF value.t \notin primitive_types
      THEN BadMonitorConfiguration("unable to convert type", FieldName(field_name))
    ELSE IF convert_to \in {"str", "unicode"}
      THEN text_conversion(value, convert_to)
    ELSE IF value.t \in {"str", "unicode"}
      THEN IF convert_to = "bool"
             THEN bool_conversion(value)
             ELSE ParseAs(field_name, value, convert_to)
    ELSE IF convert_to = "bool"
      THEN Returned(PyBool(value.n # 0))
    ELSE numeric_conversion(field_name, value, convert_to)

\* A variant of perform_conversion: a bool is not taken for a number, and its
\* conversion to a number type is refused like that of a value of another type.
perform_conversionBoolUnsupported(field_name, value, convert_to) ==
    IF convert_to \notin primitive_types
      THEN Raised("Exception", "unsupported type for conversion", NoField)
    ELSE IF value.t \notin primitive_types
      THEN BadMonitorConfiguration("unable to convert type", FieldName(field_name))
    ELSE IF convert_to \in {"str", "unicode"}
      THEN text_conversion(value, convert_to)
    ELSE IF value.t \in {"str", "unicode"}
      THEN IF convert_to = "bool"
             THEN bool_conversion(value)
             ELSE ParseAs(field_name, value, convert_to)
    ELSE IF convert_to = "bool"
      THEN BadMonitorConfiguration("numeric value given for boolean field", FieldName(field_name))
    ELSE IF value.t = "bool"
      THEN BadMonitorConfiguration("unable to convert type", FieldName(field_name))
    ELSE numeric_conversion(field_name, value, convert_to)

\* __perform_conversion(field_name, value, convert_to), lines 702-739.
perform_conversion(field_name, value, convert_to) ==
    IF convert_to \notin primitive_types
      THEN Raised("Exception", "unsupported type for conversion", NoField)
    ELSE IF value.t \notin primitive_types
      THEN BadMonitorConfiguration("unable to convert type", FieldName(field_name))
    ELSE IF convert_to \in {"str", "unicode"}
      THEN text_conversion(value, convert_to)
    ELSE IF value.t \in {"str", "unicode"}
      THEN IF convert_to = "bool"
             THEN bool_conversion(value)
             ELSE ParseAs(field_name, value, convert_to)
    ELSE IF convert_to = "bool"
      THEN BadMonitorConfiguration("numeric value given for boolean field", FieldName(field_name))
    ELSE numeric_conversion(field_name, value, convert_to)

\* raise BadMonitorConfiguration('Value of %s ...' % (str(result), field,
\* str(bound)), field): the message is built before the exception is.
range_error(kind, field, result, bound) ==
    IF ~Encodable(result) \/ ~Encodable(bound) THEN UnicodeEncodeError
    ELSE BadMonitorConfiguration(kind, FieldName(field))

\* Lines 692-700: the bounds, applied to result.
check_bounds(field, result, max_value, min_value) ==
    IF max_value # PyNone /\ Greater(result, max_value)
      THEN range_error("above maximum", field, result, max_value)
    ELSE IF min_value # PyNone /\ Less(result, min_value)
      THEN range_error("below minimum", field, result, min_value)
    ELSE Returned(result)

\* A variant of get: a field is missing only if the default does not supply it.
getDefaultFirst(m, field, required_field, max_value, min_value, convert_to, default) ==
    LET result == IF field \in DOMAIN m THEN m[field] ELSE default
        conv == IF convert_to # NoConvert /\ result.t # convert_to
                  THEN perform_conversion(field, result, convert_to)
                  ELSE Returned(result)
    IN  IF required_field /\ result = PyNone
          THEN BadMonitorConfiguration("missing required field", FieldName(field))
        ELSE IF result = PyNone THEN Returned(result)
        ELSE IF ~conv.ok THEN conv
        ELSE check_bounds(field, conv.val, max_value, min_value)

\* A variant of get: None is converted and compared like any other value.
getNoneChecked(m, field, required_field, max_value, min_value, convert_to, default) ==
    IF required_field /\ field \notin DOMAIN m
      THEN BadMonitorConfiguration("missing required field", FieldName(field))
    ELSE
      LET result == IF field \in DOMAIN m THEN m[field] ELSE default
          conv == IF convert_to # NoConvert /\ result.t # convert_to
                    THEN perform_conversion(field, result, convert_to)
                    ELSE Returned(result)
      IN  IF ~conv.ok THEN conv
          ELSE check_bounds(field, conv.val, max_value, min_value)

\* get(field, required_field, max_value, min_value, convert_to, default),
\* lines 656-700, on the map m.
get(m, field, required_field, max_value, min_value, convert_to, default) ==
    IF required_field /\ field \notin DOMAIN m
      THEN BadMonitorConfiguration("missing required field", FieldName(field))
    ELSE
      LET result == IF field \in DOMAIN m THEN m[field] ELSE default
          conv == IF convert_to # NoConvert /\ result.t # convert_to
                    THEN perform_conversion(field, result, convert_to)
                    ELSE Returned(result)
      IN  IF result = PyNone THEN Returned(result)
          ELSE IF ~conv.ok THEN conv
          ELSE check_bounds(field, conv.val, max_value, min_value)

\* MonitorConfig.__init__(content), lines 639-642: the map is a copy of content.
MonitorConfig(c) == [x \in DOMAIN c |-> c[x]]

----------------------------------------------------------------------------
(* MonitorInformation (lines 433-570), the define_ functions (330-430) and *)
(* the descriptors (573-620). A dict is a function; an argument that may   *)
(* be None is a sequence, empty for None.                                  *)

\* d[k] = v
Put(d, k, v) == [x \in DOMAIN d \cup {k} |-> IF x = k THEN v ELSE d[x]]
Values(d) == {d[k] : k \in DOMAIN d}

\* A descriptor that was not added to a monitor's information has no sort_pos.
NoSortPos == 0

\* ConfigOption() with the fields define_config_option assigns (lines 357-364).
ConfigOption(option_name, description, required_option, max_value, min_value, convert_to, default) ==
    [option_name |-> option_name, description |-> description,
     required_option |-> required_option, max_value |-> max_value,
     min_value |-> min_value, convert_to |-> convert_to, default |-> default,
     sort_pos |-> NoSortPos]

\* MetricDescription() with the fields define_metric assigns (lines 403-409).
MetricDescription(metric_name, description, extra_fields, unit, cumulative, category) ==
    [metric_name |-> metric_name, description |-> description,
     extra_fields |-> extra_fields, unit |-> unit, cumulative |-> cumulative,
     category |-> category, sort_pos |-> NoSortPos]

\* LogFieldDescription() with the fields define_log_field assigns (lines 424-426).
LogFieldDescription(field, description) ==
    [field |-> field, description |-> description, sort_pos |-> NoSortPos]

\* MonitorInformation(monitor_module), lines 438-448.
MonitorInformation(monitor_module) ==
    [monitor_module |-> monitor_module, description |-> <<>>, options |-> <<>>,
     metrics |-> <<>>, log_fields |-> <<>>, counter |-> 0]

\* sorted(items, key=sort_pos): the items in ascending order of sort_pos.
RECURSIVE SortedBySortPos(_)
SortedBySortPos(items) ==
    IF items = {} THEN <<>>
    ELSE LET first == CHOOSE x \in items : \A y \in items : x.sort_pos <= y.sort_pos
         IN  <<first>> \o SortedBySortPos(items \ {first})

\* The properties config_options, metrics and log_fields (lines 468-493).
config_options(info) == SortedBySortPos(Values(info.options))
metrics(info) == SortedBySortPos(Values(info.metrics))
log_fields(info) == SortedBySortPos(Values(info.log_fields))

\* A dict, given by its items in the order the dict iterates over them.
PyDict(items) == [t |-> "dict", n |-> 0, s |-> <<>>, items |-> items]
Item(key, val) == [key |-> key, val |-> val]

\* repr(c) for a character of a text
ReprChar(c) == IF c = NonAsciiChar THEN "\\xe9" ELSE c

\* repr(value) for a primitive value: a str in quotes, a unicode in quotes
\* after a u, a long with an L, the others as str() writes them.
Repr(v) ==
    CASE v.t = "str" -> <<"'">> \o [i \in DOMAIN v.s |-> ReprChar(v.s[i])] \o <<"'">>
      [] v.t = "unicode" -> <<"u", "'">> \o [i \in DOMAIN v.s |-> ReprChar(v.s[i])] \o <<"'">>
      [] v.t = "long" -> ToText(v) \o <<"L">>
      [] OTHER -> ToText(v)

RECURSIVE ItemsText(_)
\* The items of a dict as str() writes them: repr(key): repr(value), ...
ItemsText(items) ==
    IF items = <<>> THEN <<>>
    ELSE Repr(Head(items).key) \o <<":", " ">> \o Repr(Head(items).val)
         \o (IF Tail(items) = <<>> THEN <<>> ELSE <<",", " ">> \o ItemsText(Tail(items)))

\* str(extra_fields) for a dict (line 548).
DictText(extra_fields) == <<"{">> \o ItemsText(extra_fields.items) \o <<"}">>

\* The key a metric is stored under (lines 543-548).
MetricKey(metric) ==
    IF metric.extra_fields = PyNone THEN metric.metric_name
    ELSE metric.metric_name \o DictText(metric.extra_fields)

\* A variant of counter_incremented: the counter is left as it was.
counter_unchanged(info) == info

\* info.__counter += 1 (line 535).
counter_incremented(info) == [info EXCEPT !.counter = @ + 1]

\* setattr(item, 'sort_pos', info.__counter)
Stamp(info) == info.counter

\* A variant of put_option: an option registered again keeps its first position.
put_optionKeepPosition(info, option) ==
    [info EXCEPT !.options =
        Put(@, option.option_name,
            [option EXCEPT !.sort_pos =
                IF option.option_name \in DOMAIN info.options
                  THEN info.options[option.option_name].sort_pos
                  ELSE Stamp(info)])]

\* Lines 537-540.
put_option(info, option) ==
    [info EXCEPT !.options =
        Put(@, option.option_name, [option EXCEPT !.sort_pos = Stamp(info)])]

\* Lines 542-550.
put_metric(info, metric) ==
    [info EXCEPT !.metrics = Put(@, MetricKey(metric), [metric EXCEPT !.sort_pos = Stamp(info)])]

\* Lines 552-555.
put_log_field(info, log_field) ==
    [info EXCEPT !.log_fields =
        Put(@, log_field.field, [log_field EXCEPT !.sort_pos = Stamp(info)])]

\* set_monitor_info(monitor_module, description, option, metric, log_field),
\* lines 511-555, on the registry reg: the registry after the call.
set_monitor_info(reg, monitor_module, description, option, metric, log_field) ==
    LET created == IF monitor_module \notin DOMAIN reg
                     THEN Put(reg, monitor_module, MonitorInformation(monitor_module))
                     ELSE reg
        info == created[monitor_module]
        described == IF description # <<>>
                       THEN [info EXCEPT !.description = description]
                       ELSE info
        counted == counter_incremented(described)
        withOption == IF option # <<>> THEN put_option(counted, option[1]) ELSE counted
        withMetric == IF metric # <<>> THEN put_metric(withOption, metric[1]) ELSE withOption
        withField == IF log_field # <<>>
                       THEN put_log_field(withMetric, log_field[1])
                       ELSE withMetric
    IN  Put(created, monitor_module, withField)

\* define_config_option(monitor_module, ...), lines 330-368; o holds the other
\* arguments.
define_config_option(reg, monitor_module, o) ==
    set_monitor_info(reg, monitor_module, <<>>,
                     <<ConfigOption(o.option_name, o.description, o.required_option,
                                    o.max_value, o.min_value, o.convert_to, o.default)>>,
                     <<>>, <<>>)

\* define_metric(monitor_module, ...), lines 371-410.
define_metric(reg, monitor_module, d) ==
    set_monitor_info(reg, monitor_module, <<>>, <<>>,
                     <<MetricDescription(d.metric_name, d.description, d.extra_fields,
                                         d.unit, d.cumulative, d.category)>>,
                     <<>>)

\* define_log_field(monitor_module, field_name, field_description), lines 413-430.
define_log_field(reg, monitor_module, field_name, field_description) ==
    set_monitor_info(reg, monitor_module, <<>>, <<>>, <<>>,
                     <<LogFieldDescription(field_name, field_description)>>)

\* get_monitor_info(monitor_module), lines 557-570: <<the record>>, or <<>> for
\* None.
get_monitor_info(reg, monitor_module) ==
    IF monitor_module \in DOMAIN reg THEN <<reg[monitor_module]>> ELSE <<>>

\* The outcome of MonitorConfig.__init__: the map built, or the exception.
CfgBuilt(map) == [ok |-> TRUE, map |-> map, err |-> Returned(PyNone)]
CfgFailed(e) == [ok |-> FALSE, map |-> <<>>, err |-> e]

\* A variant of Qualifies: the default alone does not make get be called.
QualifiesWithoutDefault(x, map) ==
    x.required_option \/ x.option_name \in DOMAIN map

\* The test of line 647.
Qualifies(x, map) ==
    x.required_option \/ x.default # PyNone \/ x.option_name \in DOMAIN map

\* self.get(x.option_name, ...) with the rules of option x (lines 648-650).
get_option(map, x) ==
    get(map, x.option_name, x.required_option, x.max_value, x.min_value,
        x.convert_to, x.default)

\* The assignment of line 648: the value get returned is stored under the
\* option's name; an exception of get leaves the constructor.
store_option(map, x, r) ==
    IF r.ok THEN CfgBuilt(Put(map, x.option_name, r.val)) ELSE CfgFailed(r)

\* The loop of lines 646-650 over the options left, on the map built so far:
\* an exception of get ends it.
RECURSIVE ApplyOptions(_, _)
RECURSIVE NextOption(_, _)
ApplyOptions(map, options) ==
    IF options = <<>> THEN CfgBuilt(map)
    ELSE IF ~Qualifies(Head(options), map) THEN ApplyOptions(map, Tail(options))
    ELSE NextOption(store_option(map, Head(options), get_option(map, Head(options))),
                    Tail(options))

\* The loop goes on to the options left unless the last one raised.
NextOption(built, options) ==
    IF built.ok THEN ApplyOptions(built.map, options) ELSE built

\* A variant of MonitorConfigInit: a rule that fails leaves the raw content.
MonitorConfigInitLenient(content_arg, monitor_module, reg) ==
    LET info == get_monitor_info(reg, monitor_module)
        built == IF info = <<>> THEN CfgBuilt(MonitorConfig(content_arg))
                 ELSE ApplyOptions(MonitorConfig(content_arg), config_options(info[1]))
    IN  IF built.ok THEN built ELSE CfgBuilt(MonitorConfig(content_arg))

\* MonitorConfig(content, monitor_module), lines 632-650.
MonitorConfigInit(content_arg, monitor_module, reg) ==
    LET info == get_monitor_info(reg, monitor_module)
    IN  IF info = <<>> THEN CfgBuilt(MonitorConfig(content_arg))
        ELSE ApplyOptions(MonitorConfig(content_arg), config_options(info[1]))

----------------------------------------------------------------------------
(* ScalyrMonitor.__init__ (lines 66-132): the sample interval.             *)

\* DEFAULT_SAMPLE_INTERVAL_SECS = 30.0
DEFAULT_SAMPLE_INTERVAL_SECS == PyFloat(60)

\* A variant of init_sample_interval: the configuration is preferred to the
\* argument.
init_sample_intervalPreferConfig(m, sample_interval_arg) ==
    IF "sample_interval" \in DOMAIN m \/ sample_interval_arg = PyNone
      THEN get(m, "sample_interval", FALSE, PyNone, PyNone, "float",
               DEFAULT_SAMPLE_INTERVAL_SECS)
      ELSE Returned(sample_interval_arg)

\* Lines 114-118: the argument if it is not None, else the configuration's
\* sample_interval converted to float, else the default.
init_sample_interval(m, sample_interval_arg) ==
    IF sample_interval_arg # PyNone
      THEN Returned(sample_interval_arg)
      ELSE get(m, "sample_interval", FALSE, PyNone, PyNone, "float",
               DEFAULT_SAMPLE_INTERVAL_SECS)

\* monitor_config['module'] on a dict without the key (line 92)
KeyError == Raised("KeyError", "module", NoField)
\* What an _initialize that refuses the configuration or the system raises.
HookError == Raised("Exception", "raised by _initialize", NoField)

\* The state __init__ leaves and how it ended.
InitResult(map, interval, err) == [map |-> map, interval |-> interval, err |-> err]

\* Lines 130-132: self._initialize() behaves as initialize says.
init_hook(map, interval, initialize) ==
    IF ~interval.ok THEN InitResult(map, PyNone, interval)
    ELSE IF initialize = "raises" THEN InitResult(map, interval.val, HookError)
    ELSE InitResult(map, interval.val, Returned(PyNone))

\* Lines 94-132, once MonitorConfig(...) returned or raised.
init_configured(built, sample_interval_arg, initialize) ==
    IF ~built.ok THEN InitResult(<<>>, PyNone, built.err)
    ELSE init_hook(built.map, init_sample_interval(built.map, sample_interval_arg),
                   initialize)

\* ScalyrMonitor.__init__(monitor_config, logger, sample_interval_secs), lines
\* 90-132, with the _initialize of the derived class behaving as initialize
\* says: the first exception raised ends it.
monitor_init(monitor_config, sample_interval_arg, initialize, reg) ==
    IF "module" \notin DOMAIN monitor_config THEN InitResult(<<>>, PyNone, KeyError)
    ELSE init_configured(MonitorConfigInit(monitor_config, monitor_config["module"], reg),
                         sample_interval_arg, initialize)

\* ScalyrMonitor(monitor_config, logger, sample_interval_secs) is called: an
\* exception of __init__ leaves the caller without a monitor.
Construct ==
    /\ constructed = "no"
    /\ ctorOut = NotCalled
    /\ LET r == monitor_init(content, override, hook, monitor_info)
       IN  /\ constructed' = IF r.err.ok THEN "ok" ELSE "raised"
           /\ cfgMap' = r.map
           /\ sample_interval_secs' = r.interval
           /\ ctorOut' = r.err
    /\ UNCHANGED <<content, getArgs, getOut, override, hook, cfgModule, opOut, cfgCopy>>
    /\ UNCHANGED <<runVars, ctrVars, histVars, outVars, regVars, fatalVars>>

\* MonitorConfig(content, monitor_module) is called.
ConstructConfig(monitor_module) ==
    /\ constructed = "no"
    /\ ctorOut = NotCalled
    /\ LET built == MonitorConfigInit(content, monitor_module, monitor_info)
       IN  /\ cfgMap' = built.map
           /\ ctorOut' = built.err
    /\ cfgModule' = <<monitor_module>>
    /\ UNCHANGED <<content, getArgs, getOut, override, constructed, sample_interval_secs, hook>>
    /\ UNCHANGED <<opOut, cfgCopy>>
    /\ UNCHANGED <<runVars, ctrVars, histVars, outVars, regVars, fatalVars>>

\* The set_monitor_info call a registration makes, as the history keeps it.
Registration(monitor_module, kind, item) ==
    [module |-> monitor_module, kind |-> kind, item |-> item]

\* define_config_option(monitor_module, ...) is called.
DefineConfigOption(monitor_module, o) ==
    /\ Len(regLog) < MaxRegs
    /\ monitor_info' = define_config_option(monitor_info, monitor_module, o)
    /\ regLog' = Append(regLog, Registration(monitor_module, "option", o))
    /\ UNCHANGED lookupOut
    /\ UNCHANGED <<runVars, ctrVars, histVars, outVars, cfgVars, fatalVars>>

\* define_metric(monitor_module, ...) is called.
DefineMetric(monitor_module, d) ==
    /\ Len(regLog) < MaxRegs
    /\ monitor_info' = define_metric(monitor_info, monitor_module, d)
    /\ regLog' = Append(regLog, Registration(monitor_module, "metric", d))
    /\ UNCHANGED lookupOut
    /\ UNCHANGED <<runVars, ctrVars, histVars, outVars, cfgVars, fatalVars>>

\* define_log_field(monitor_module, field_name, field_description) is called.
DefineLogField(monitor_module, l) ==
    /\ Len(regLog) < MaxRegs
    /\ monitor_info' = define_log_field(monitor_info, monitor_module, l.field, l.description)
    /\ regLog' = Append(regLog, Registration(monitor_module, "log_field", l))
    /\ UNCHANGED lookupOut
    /\ UNCHANGED <<runVars, ctrVars, histVars, outVars, cfgVars, fatalVars>>

\* set_monitor_info(monitor_module, description=text) is called.
SetDescription(monitor_module, text) ==
    /\ Len(regLog) < MaxRegs
    /\ monitor_info' = set_monitor_info(monitor_info, monitor_module, <<text>>, <<>>, <<>>, <<>>)
    /\ regLog' = Append(regLog, Registration(monitor_module, "description", text))
    /\ UNCHANGED lookupOut
    /\ UNCHANGED <<runVars, ctrVars, histVars, outVars, cfgVars, fatalVars>>

\* No get_monitor_info call was made yet.
NoLookup == [module |-> PyNone, ret |-> <<>>]

\* A variant of Lookup: a record is made for a module that has none.
LookupCreating(monitor_module) ==
    /\ monitor_info' = IF monitor_module \in DOMAIN monitor_info THEN monitor_info
                       ELSE Put(monitor_info, monitor_module, MonitorInformation(monitor_module))
    /\ lookupOut' = [module |-> monitor_module,
                     ret |-> get_monitor_info(monitor_info', monitor_module)]
    /\ UNCHANGED regLog
    /\ UNCHANGED <<runVars, ctrVars, histVars, outVars, cfgVars, fatalVars>>

\* get_monitor_info(monitor_module) is called.
Lookup(monitor_module) ==
    /\ lookupOut' = [module |-> monitor_module,
                     ret |-> get_monitor_info(monitor_info, monitor_module)]
    /\ UNCHANGED <<monitor_info, regLog>>
    /\ UNCHANGED <<runVars, ctrVars, histVars, outVars, cfgVars, fatalVars>>

\* A variant of DoGet: a default returned for an absent field is stored in
\* the map, as dict.setdefault would.
DoGetStoring ==
    /\ getOut = NotCalled
    /\ getOut' = get(cfgMap, getArgs.field, getArgs.required_field, getArgs.max_value,
                     getArgs.min_value, getArgs.convert_to, getArgs.default)
    /\ cfgMap' = IF getOut'.ok /\ getArgs.field \notin DOMAIN cfgMap
                   THEN Put(cfgMap, getArgs.field, getOut'.val)
                   ELSE cfgMap
    /\ UNCHANGED <<content, getArgs, override, constructed, sample_interval_secs>>
    /\ UNCHANGED <<hook, ctorOut, cfgModule, opOut, cfgCopy>>
    /\ UNCHANGED <<runVars, ctrVars, histVars, outVars, regVars, fatalVars>>

\* monitor.get(...) is called with the arguments drawn.
DoGet ==
    /\ getOut = NotCalled
    /\ getOut' = get(cfgMap, getArgs.field, getArgs.required_field, getArgs.max_value,
                     getArgs.min_value, getArgs.convert_to, getArgs.default)
    /\ UNCHANGED <<content, cfgMap, getArgs, override, constructed, sample_interval_secs>>
    /\ UNCHANGED <<hook, ctorOut, cfgModule, opOut, cfgCopy>>
    /\ UNCHANGED <<runVars, ctrVars, histVars, outVars, regVars, fatalVars>>

\* A read of the MonitorConfig: what was called, with what, and the outcome.
Read(op, arg, ret) == [op |-> op, arg |-> arg, ret |-> ret]

\* What the reads leave as it is: everything but opOut.
ReadFrame ==
    /\ UNCHANGED <<content, cfgMap, getArgs, getOut, override, constructed>>
    /\ UNCHANGED <<sample_interval_secs, hook, ctorOut, cfgModule, cfgCopy>>
    /\ UNCHANGED <<runVars, ctrVars, histVars, outVars, regVars, fatalVars>>

\* key in config (__contains__, lines 778-780).
ConfigContains(key) ==
    /\ opOut' = Read("contains", key, Returned(PyBool(key \in DOMAIN cfgMap)))
    /\ ReadFrame

\* config.keys() and the other enumerations (__iter__, iteritems, itervalues,
\* iterkeys, items, values, keys; lines 741-766): the items of the map.
ConfigItems ==
    /\ opOut' = Read("items", "", Returned(PyDict(cfgMap)))
    /\ ReadFrame

\* config[field] (__getitem__, lines 768-771).
ConfigGetItem(field) ==
    /\ opOut' = Read("getitem", field,
                     IF field \notin DOMAIN cfgMap
                       THEN Raised("KeyError", "missing field in monitor config", NoField)
                       ELSE Returned(cfgMap[field]))
    /\ ReadFrame

\* config.copy() (lines 773-776): a MonitorConfig whose map is a copy of
\* this one's.
ConfigCopy ==
    /\ cfgCopy' = <<[x \in DOMAIN cfgMap |-> cfgMap[x]]>>
    /\ UNCHANGED <<content, cfgMap, getArgs, getOut, override, constructed>>
    /\ UNCHANGED <<sample_interval_secs, hook, ctorOut, cfgModule, opOut>>
    /\ UNCHANGED <<runVars, ctrVars, histVars, outVars, regVars, fatalVars>>

----------------------------------------------------------------------------
(* The configurations and arguments explored.                              *)

Texts ==
    { <<"t", "r", "u", "e">>, <<"T", "R", "U", "E">>, <<"T", "r", "u", "e">>,
      <<"f", "a", "l", "s", "e">>, <<"n", "o">>, <<"1">>, <<"5">>,
      <<"1", "5", ".", "5">>, <<"-", "1">>, <<"a", "b", "c">>, <<>> }

\* An odd integer between ExactLimit and its double: no float is equal to it.
InexactInt == 2 * ExactLimit - 1

\* The values a configuration document may hold: ints, longs, floats, booleans
\* and texts.
PrimitiveValues ==
    { PyInt(-1), PyInt(0), PyInt(1), PyInt(5), PyInt(10), PyLong(5),
      PyFloat(2), PyFloat(5), PyFloat(20), PyFloat(31), PyBool(TRUE), PyBool(FALSE),
      PyUnicode(<<"t", "r", "u", "e">>), PyUnicode(<<"5">>) }
    \cup { PyStr(x) : x \in Texts }
    \cup { PyUnicode(<<NonAsciiChar>>), PyStr(<<NonAsciiChar>>) }
    \cup { PyInt(InexactInt), PyLong(InexactInt), PyLong(FloatLimit + 1) }

\* The values a dict handed to MonitorConfig may hold.
StoredValues == PrimitiveValues \cup {PyNone, PyList}

ModuleEntry == [k \in {"module"} |-> PyStr(<<"m">>)]
WithEntry(key, v) == [k \in {"module", key} |-> IF k = key THEN v ELSE ModuleEntry["module"]]

GetContents == {ModuleEntry} \cup { WithEntry("f", v) : v \in StoredValues }
InitContents == {ModuleEntry} \cup { WithEntry("sample_interval", v) : v \in PrimitiveValues }

ConvertTos == primitive_types \cup {NoConvert, "list"}
Defaults == {PyNone, PyInt(10), PyStr(<<"1", "5", ".", "5">>), DEFAULT_SAMPLE_INTERVAL_SECS}
MaxValues == {PyNone, PyInt(5), PyFloat(20)}
MinValues == {PyNone, PyInt(0), PyFloat(5)}
Overrides == {PyNone, PyInt(0), PyInt(5), PyFloat(5)}

GetArgs ==
    [field : {"f"}, required_field : BOOLEAN, max_value : MaxValues,
     min_value : MinValues, convert_to : ConvertTos, default : Defaults]

----------------------------------------------------------------------------
(* ScalyrMonitor: counters (lines 156-186).                                *)

\* reported_lines(): the field, read under the lock.
reported_lines == m_reported_lines
\* errors(): the field, read under the lock.
errors == m_errors

\* A variant of CanAcquire: the lock is not taken into account.
CanAcquireUnlocked(t) == TRUE

\* self.__lock.acquire() returns only once no other thread holds the lock.
CanAcquire(t) == lock = NoHolder

\* self.__reported_lines += reported_lines: the value stored.
StoredReported(t) == tmp[t] + args[t][1]
\* A variant of StoredErrors: = written for +=.
StoredErrorsAssigned(t) == args[t][2]

\* self.__errors += errors: the value stored.
StoredErrors(t) == tmp[t] + args[t][2]

\* What the caller of increment_counter does once the call has returned: the
\* loop goes on to its suspension, another caller is done.
AfterIncrement(t) == IF t = "run" THEN "sleep" ELSE pc

\* One step of thread t inside increment_counter. A += is a load and a store:
\* two threads inside it at once could lose an update.
IncStep(t) ==
    /\ ipc[t] # "idle"
    /\ \/ /\ ipc[t] = "acquire"
          /\ CanAcquire(t)
          /\ lock' = t
          /\ ipc' = [ipc EXCEPT ![t] = "loadR"]
          /\ UNCHANGED <<tmp, m_reported_lines, m_errors, pc>>
       \/ /\ ipc[t] = "loadR"
          /\ tmp' = [tmp EXCEPT ![t] = m_reported_lines]
          /\ ipc' = [ipc EXCEPT ![t] = "storeR"]
          /\ UNCHANGED <<lock, m_reported_lines, m_errors, pc>>
       \/ /\ ipc[t] = "storeR"
          /\ m_reported_lines' = StoredReported(t)
          /\ ipc' = [ipc EXCEPT ![t] = "loadE"]
          /\ UNCHANGED <<lock, tmp, m_errors, pc>>
       \/ /\ ipc[t] = "loadE"
          /\ tmp' = [tmp EXCEPT ![t] = m_errors]
          /\ ipc' = [ipc EXCEPT ![t] = "storeE"]
          /\ UNCHANGED <<lock, m_reported_lines, m_errors, pc>>
       \/ /\ ipc[t] = "storeE"
          /\ m_errors' = StoredErrors(t)
          /\ ipc' = [ipc EXCEPT ![t] = "release"]
          /\ UNCHANGED <<lock, tmp, m_reported_lines, pc>>
       \/ /\ ipc[t] = "release"
          /\ lock' = NoHolder
          /\ ipc' = [ipc EXCEPT ![t] = "idle"]
          /\ tmp' = [tmp EXCEPT ![t] = 0]
          /\ pc' = AfterIncrement(t)
          /\ UNCHANGED <<m_reported_lines, m_errors>>
    /\ UNCHANGED <<args, is_running, lastOutcome, finished, errorLogs>>
    /\ UNCHANGED <<histVars, outVars, cfgVars, regVars, fatalVars>>

\* Another thread (a logger reporting for this monitor) calls
\* increment_counter(reported_lines=d[1], errors=d[2]).
CallerCall(c, d) ==
    /\ ipc[c] = "idle"
    /\ calls < MaxCalls
    /\ ipc' = [ipc EXCEPT ![c] = "acquire"]
    /\ args' = [args EXCEPT ![c] = d]
    /\ calls' = calls + 1
    /\ sumR' = sumR + d[1]
    /\ sumE' = sumE + d[2]
    /\ UNCHANGED <<lock, tmp, m_reported_lines, m_errors>>
    /\ UNCHANGED <<samples, failed, stopAt, begunAfterStop>>
    /\ UNCHANGED <<runVars, outVars, cfgVars, regVars, fatalVars>>

----------------------------------------------------------------------------
(* ScalyrMonitor.run (lines 188-220) and the calls it makes.               *)

\* _is_stopped(): whether stop() has been invoked.
is_stopped == ~is_running

\* The thread is started: run() begins at the loop's test.
Start ==
    /\ pc = "NotStarted"
    /\ pc' = "check"
    /\ UNCHANGED <<is_running, lastOutcome, finished, errorLogs>>
    /\ UNCHANGED <<ctrVars, histVars, outVars, cfgVars, regVars, fatalVars>>

\* stop(): the run state stops running; a sleeping loop is awakened.
StopRequest ==
    /\ pc # "NotStarted"
    /\ is_running' = FALSE
    /\ stopAt' = IF stopAt = "none" THEN pc ELSE stopAt
    /\ UNCHANGED <<pc, lastOutcome, finished, errorLogs>>
    /\ UNCHANGED <<samples, failed, calls, sumR, sumE, begunAfterStop>>
    /\ UNCHANGED <<ctrVars, outVars, cfgVars, regVars, fatalVars>>

\* A variant of LoopCheck: the stop is looked at only after a sample that
\* raised.
LoopCheckAfterFailure ==
    /\ pc = "check"
    /\ IF is_stopped /\ lastOutcome = "raised"
         THEN /\ pc' = "done"
              /\ finished' = TRUE
         ELSE /\ samples < MaxSamples
              /\ pc' = "call"
              /\ UNCHANGED finished
    /\ UNCHANGED <<is_running, lastOutcome, errorLogs>>
    /\ UNCHANGED <<ctrVars, histVars, outVars, cfgVars, regVars, fatalVars>>

\* A variant of LoopCheck: the stop is looked at only before the first sample.
LoopCheckOnlyAtFirst ==
    /\ pc = "check"
    /\ IF is_stopped /\ samples = 0
         THEN /\ pc' = "done"
              /\ finished' = TRUE
         ELSE /\ samples < MaxSamples
              /\ pc' = "call"
              /\ UNCHANGED finished
    /\ UNCHANGED <<is_running, lastOutcome, errorLogs>>
    /\ UNCHANGED <<ctrVars, histVars, outVars, cfgVars, regVars, fatalVars>>

\* A variant of LoopCheck: the loop's test is inverted.
LoopCheckInverted ==
    /\ pc = "check"
    /\ IF is_running
         THEN /\ pc' = "done"
              /\ finished' = TRUE
         ELSE /\ samples < MaxSamples
              /\ pc' = "call"
              /\ UNCHANGED finished
    /\ UNCHANGED <<is_running, lastOutcome, errorLogs>>
    /\ UNCHANGED <<ctrVars, histVars, outVars, cfgVars, regVars, fatalVars>>

\* while not self._is_stopped(): ... ; self._logger.info('Monitor has finished')
LoopCheck ==
    /\ pc = "check"
    /\ IF is_stopped
         THEN /\ pc' = "done"
              /\ finished' = TRUE
         ELSE /\ samples < MaxSamples
              /\ pc' = "call"
              /\ UNCHANGED finished
    /\ UNCHANGED <<is_running, lastOutcome, errorLogs>>
    /\ UNCHANGED <<ctrVars, histVars, outVars, cfgVars, regVars, fatalVars>>

\* self.gather_sample() is invoked.
InvokeGather ==
    /\ pc = "call"
    /\ pc' = "gather"
    /\ samples' = samples + 1
    /\ begunAfterStop' = IF stopAt # "none" THEN begunAfterStop + 1 ELSE begunAfterStop
    /\ UNCHANGED <<is_running, lastOutcome, finished, errorLogs>>
    /\ UNCHANGED <<failed, calls, sumR, sumE, stopAt>>
    /\ UNCHANGED <<ctrVars, outVars, cfgVars, regVars, fatalVars>>

\* gather_sample returns: the loop goes on to its suspension.
GatherReturn ==
    /\ pc = "gather"
    /\ pc' = "sleep"
    /\ lastOutcome' = "returned"
    /\ UNCHANGED <<is_running, finished, errorLogs>>
    /\ UNCHANGED <<ctrVars, histVars, outVars, cfgVars, regVars, fatalVars>>

\* A variant of GatherRaise: the handler counts the failed sample as a
\* reported line too, increment_counter(reported_lines=1, errors=1).
GatherRaiseCountsLine ==
    /\ pc = "gather"
    /\ pc' = "inc"
    /\ lastOutcome' = "raised"
    /\ errorLogs' = errorLogs + 1
    /\ failed' = failed + 1
    /\ ipc' = [ipc EXCEPT !["run"] = "acquire"]
    /\ args' = [args EXCEPT !["run"] = <<1, 1>>]
    /\ sumE' = sumE + 1
    /\ UNCHANGED <<is_running, finished>>
    /\ UNCHANGED <<lock, tmp, m_reported_lines, m_errors>>
    /\ UNCHANGED <<samples, calls, sumR, stopAt, begunAfterStop>>
    /\ UNCHANGED <<outVars, cfgVars, regVars, fatalVars>>

\* A variant of GatherRaise: no try around the call, so the failure reaches the
\* outer except of run(), which logs it and lets run() return.
GatherRaiseUncaught ==
    /\ pc = "gather"
    /\ pc' = "done"
    /\ lastOutcome' = "raised"
    /\ errorLogs' = errorLogs + 1
    /\ failed' = failed + 1
    /\ UNCHANGED <<is_running, finished>>
    /\ UNCHANGED <<samples, calls, sumR, sumE, stopAt, begunAfterStop>>
    /\ UNCHANGED <<ctrVars, outVars, cfgVars, regVars, fatalVars>>

\* gather_sample raises an Exception: except Exception logs it and calls
\* self.increment_counter(errors=1).
GatherRaise ==
    /\ pc = "gather"
    /\ pc' = "inc"
    /\ lastOutcome' = "raised"
    /\ errorLogs' = errorLogs + 1
    /\ failed' = failed + 1
    /\ ipc' = [ipc EXCEPT !["run"] = "acquire"]
    /\ args' = [args EXCEPT !["run"] = <<0, 1>>]
    /\ sumE' = sumE + 1
    /\ UNCHANGED <<is_running, finished>>
    /\ UNCHANGED <<lock, tmp, m_reported_lines, m_errors>>
    /\ UNCHANGED <<samples, calls, sumR, stopAt, begunAfterStop>>
    /\ UNCHANGED <<outVars, cfgVars, regVars, fatalVars>>

\* _sleep_but_awaken_if_stopped(interval): the interval elapses.
SleepTimeout ==
    /\ pc = "sleep"
    /\ pc' = "check"
    /\ UNCHANGED <<is_running, lastOutcome, finished, errorLogs>>
    /\ UNCHANGED <<ctrVars, histVars, outVars, cfgVars, regVars, fatalVars>>

\* A variant of SleepAwaken: a plain sleep, which a stop request does not end.
SleepNotAwakened ==
    /\ pc = "sleep"
    /\ FALSE
    /\ UNCHANGED vars

\* _sleep_but_awaken_if_stopped(interval): stop() has been invoked, so the
\* sleep ends (or does not begin) whatever is left of the interval.
SleepAwaken ==
    /\ pc = "sleep"
    /\ is_stopped
    /\ pc' = "check"
    /\ UNCHANGED <<is_running, lastOutcome, finished, errorLogs>>
    /\ UNCHANGED <<ctrVars, histVars, outVars, cfgVars, regVars, fatalVars>>

\* A variant of OuterExcept: no except around the loop, so the exception
\* leaves run().
OuterExceptMissing ==
    /\ pc' = "propagated"
    /\ UNCHANGED <<fatalLogs, finished>>

\* except Exception of lines 217-220: the failure is logged with the error
\* code failedMonitor, and run() returns.
OuterExcept ==
    /\ pc' = "done"
    /\ fatalLogs' = fatalLogs + 1
    /\ UNCHANGED finished

\* _sleep_but_awaken_if_stopped raises an Exception (line 215).
SleepRaises ==
    /\ pc = "sleep"
    /\ escaped' = escaped + 1
    /\ OuterExcept
    /\ UNCHANGED <<is_running, lastOutcome, errorLogs>>
    /\ UNCHANGED <<ctrVars, histVars, outVars, cfgVars, regVars>>

\* gather_sample raises an Exception and self._logger.exception, called by
\* the handler, raises one too (line 212): increment_counter is not reached.
HandlerRaises ==
    /\ pc = "gather"
    /\ lastOutcome' = "raised"
    /\ failed' = failed + 1
    /\ escaped' = escaped + 1
    /\ OuterExcept
    /\ UNCHANGED <<is_running, errorLogs>>
    /\ UNCHANGED <<samples, calls, sumR, sumE, stopAt, begunAfterStop>>
    /\ UNCHANGED <<ctrVars, outVars, cfgVars, regVars>>

\* The loop has ended and self._logger.info raises an Exception (line 216).
FinishRaises ==
    /\ pc = "check"
    /\ is_stopped
    /\ escaped' = escaped + 1
    /\ OuterExcept
    /\ UNCHANGED <<is_running, lastOutcome, errorLogs>>
    /\ UNCHANGED <<ctrVars, histVars, outVars, cfgVars, regVars>>

----------------------------------------------------------------------------
(* Initial states.                                                         *)

RunInit ==
    /\ pc = "NotStarted"
    /\ is_running = TRUE
    /\ lastOutcome = "none"
    /\ finished = FALSE
    /\ errorLogs = 0

\* __init__ lines 108-110.
CtrInit ==
    /\ lock = NoHolder
    /\ ipc = [t \in Threads |-> "idle"]
    /\ args = [t \in Threads |-> <<0, 0>>]
    /\ tmp = [t \in Threads |-> 0]
    /\ m_reported_lines = 0
    /\ m_errors = 0

HistInit ==
    /\ samples = 0
    /\ failed = 0
    /\ calls = 0
    /\ sumR = 0
    /\ sumE = 0
    /\ stopAt = "none"
    /\ begunAfterStop = 0

\* __init__ line 120.
OutInit ==
    /\ metric_log_open = FALSE
    /\ sinkOpens = 0
    /\ sinkCloses = 0
    /\ outCalls = <<>>

CfgIdle ==
    /\ content = <<>>
    /\ cfgMap = <<>>
    /\ getArgs = <<>>
    /\ getOut = <<>>
    /\ override = <<>>
    /\ constructed = "no"
    /\ sample_interval_secs = <<>>
    /\ hook = "ok"
    /\ ctorOut = <<>>
    /\ cfgModule = <<>>
    /\ opOut = NoRead
    /\ cfgCopy = <<>>

\* __monitor_info__ = {} (line 509).
RegInit ==
    /\ monitor_info = <<>>
    /\ regLog = <<>>
    /\ lookupOut = NoLookup

FatalInit == fatalLogs = 0 /\ escaped = 0

Init == RunInit /\ CtrInit /\ HistInit /\ OutInit /\ CfgIdle /\ RegInit /\ FatalInit

Next ==
    \/ Start
    \/ StopRequest
    \/ LoopCheck
    \/ InvokeGather
    \/ GatherReturn
    \/ GatherRaise
    \/ SleepTimeout
    \/ SleepAwaken
    \/ \E t \in Threads : IncStep(t)
    \/ \E c \in Callers, d \in Deltas : CallerCall(c, d)

Spec == Init /\ [][Next]_vars

\* The scheduler lets every thread that can take a step take one; gather_sample
\* returns or raises; the interval of the sleep is any length, so that it
\* elapses is not assumed.
Fairness ==
    /\ WF_vars(LoopCheck)
    /\ WF_vars(InvokeGather)
    /\ WF_vars(GatherReturn \/ GatherRaise)
    /\ WF_vars(SleepAwaken)
    /\ \A t \in Threads : WF_vars(IncStep(t))

SpecLive == Spec /\ Fairness

\* The loop with failures of the calls it makes outside its inner try.
NextFatal ==
    \/ Next
    \/ SleepRaises
    \/ HandlerRaises
    \/ FinishRaises

SpecFatal == Init /\ [][NextFatal]_vars

----------------------------------------------------------------------------
(* The metric log (lines 250-265).                                         *)

\* A variant of open_metric_log: guarded by the flag.
open_metric_logGuarded ==
    /\ Len(outCalls) < MaxOutCalls
    /\ outCalls' = Append(outCalls, "open")
    /\ IF metric_log_open
         THEN UNCHANGED <<sinkOpens, metric_log_open>>
         ELSE /\ sinkOpens' = sinkOpens + 1
              /\ metric_log_open' = TRUE
    /\ UNCHANGED sinkCloses
    /\ UNCHANGED <<runVars, ctrVars, histVars, cfgVars, regVars, fatalVars>>

\* open_metric_log(): opens the logger's metric log, then sets the flag.
open_metric_log ==
    /\ Len(outCalls) < MaxOutCalls
    /\ outCalls' = Append(outCalls, "open")
    /\ sinkOpens' = sinkOpens + 1
    /\ metric_log_open' = TRUE
    /\ UNCHANGED sinkCloses
    /\ UNCHANGED <<runVars, ctrVars, histVars, cfgVars, regVars, fatalVars>>

\* A variant of close_metric_log: the flag is not tested.
close_metric_logUnguarded ==
    /\ Len(outCalls) < MaxOutCalls
    /\ outCalls' = Append(outCalls, "close")
    /\ sinkCloses' = sinkCloses + 1
    /\ metric_log_open' = FALSE
    /\ UNCHANGED sinkOpens
    /\ UNCHANGED <<runVars, ctrVars, histVars, cfgVars, regVars, fatalVars>>

\* A variant of close_metric_log: the sink is closed and the flag is left set.
close_metric_logKeepsFlag ==
    /\ Len(outCalls) < MaxOutCalls
    /\ outCalls' = Append(outCalls, "close")
    /\ IF metric_log_open
         THEN sinkCloses' = sinkCloses + 1
         ELSE UNCHANGED sinkCloses
    /\ UNCHANGED <<sinkOpens, metric_log_open>>
    /\ UNCHANGED <<runVars, ctrVars, histVars, cfgVars, regVars, fatalVars>>

\* close_metric_log(): closes the metric log if the flag is set, and clears it.
close_metric_log ==
    /\ Len(outCalls) < MaxOutCalls
    /\ outCalls' = Append(outCalls, "close")
    /\ IF metric_log_open
         THEN /\ sinkCloses' = sinkCloses + 1
              /\ metric_log_open' = FALSE
         ELSE UNCHANGED <<sinkCloses, metric_log_open>>
    /\ UNCHANGED sinkOpens
    /\ UNCHANGED <<runVars, ctrVars, histVars, cfgVars, regVars, fatalVars>>

\* open_metric_log() when self._logger.openMetricLogForMonitor raises: the
\* sink is not opened and the assignment of the flag is not reached.
open_metric_logRaises ==
    /\ Len(outCalls) < MaxOutCalls
    /\ outCalls' = Append(outCalls, "open raised")
    /\ UNCHANGED <<sinkOpens, sinkCloses, metric_log_open>>
    /\ UNCHANGED <<runVars, ctrVars, histVars, cfgVars, regVars, fatalVars>>

\* close_metric_log() when the flag is set and self._logger.closeMetricLog
\* raises: the sink is not closed and the flag is not cleared.
close_metric_logRaises ==
    /\ Len(outCalls) < MaxOutCalls
    /\ metric_log_open
    /\ outCalls' = Append(outCalls, "close raised")
    /\ UNCHANGED <<sinkOpens, sinkCloses, metric_log_open>>
    /\ UNCHANGED <<runVars, ctrVars, histVars, cfgVars, regVars, fatalVars>>

NextOutput == open_metric_log \/ close_metric_log

\* The calls with a logger that may raise.
NextOutputFailing ==
    \/ open_metric_log
    \/ close_metric_log
    \/ open_metric_logRaises
    \/ close_metric_logRaises

\* A MonitorConfig built from a drawn dict, and the arguments of one get call.
InitGet ==
    /\ RunInit /\ CtrInit /\ HistInit /\ OutInit /\ RegInit /\ FatalInit
    /\ hook = "ok"
    /\ ctorOut = NotCalled
    /\ cfgModule = <<>>
    /\ opOut = NoRead
    /\ cfgCopy = <<>>
    /\ content \in GetContents
    /\ cfgMap = MonitorConfig(content)
    /\ getArgs \in GetArgs
    /\ getOut = NotCalled
    /\ override = PyNone
    /\ constructed = "no"
    /\ sample_interval_secs = PyNone

NextGet == DoGet

SpecGet == InitGet /\ [][NextGet]_vars

\* The arguments of one ScalyrMonitor(...) call.
InitInit ==
    /\ RunInit /\ CtrInit /\ HistInit /\ OutInit /\ RegInit /\ FatalInit
    /\ hook = "ok"
    /\ ctorOut = NotCalled
    /\ cfgModule = <<>>
    /\ opOut = NoRead
    /\ cfgCopy = <<>>
    /\ content \in InitContents
    /\ cfgMap = <<>>
    /\ getArgs = <<>>
    /\ getOut = NotCalled
    /\ override \in Overrides
    /\ constructed = "no"
    /\ sample_interval_secs = PyNone

NextInit == Construct

SpecInit == InitInit /\ [][NextInit]_vars

SpecOutput == Init /\ [][NextOutput]_vars
SpecOutputFailing == Init /\ [][NextOutputFailing]_vars

----------------------------------------------------------------------------
(* The registrations and documents explored.                               *)

ModuleM == PyStr(<<"m">>)
ModuleN == PyStr(<<"n">>)
Modules == {ModuleM, ModuleN}

OptionArgs(option_name, required_option, max_value, min_value, convert_to, default) ==
    [option_name |-> option_name, description |-> <<"d">>,
     required_option |-> required_option, max_value |-> max_value,
     min_value |-> min_value, convert_to |-> convert_to, default |-> default]

\* A float option with an int default: the coerced default is 10.0.
ThresholdOption == OptionArgs("f", FALSE, PyNone, PyNone, "float", PyInt(10))
RequiredOption == OptionArgs("f", TRUE, PyNone, PyNone, "int", PyNone)
BoundedOption == OptionArgs("f", FALSE, PyInt(5), PyInt(0), "int", PyNone)
PlainOption == OptionArgs("g", FALSE, PyNone, PyNone, NoConvert, PyNone)
\* An option whose default is above its maximum.
BadDefaultOption == OptionArgs("g", FALSE, PyInt(5), PyNone, "int", PyInt(10))

MetricArgs(metric_name, extra_fields) ==
    [metric_name |-> metric_name, description |-> <<"d">>, extra_fields |-> extra_fields,
     unit |-> PyNone, cumulative |-> FALSE, category |-> PyNone]

\* extra_fields={'k': 'v'}
SomeExtraFields == PyDict(<<Item(PyStr(<<"k">>), PyStr(<<"v">>))>>)
\* extra_fields={u'k': u'v'}, a dict equal to {'k': 'v'}
UnicodeExtraFields == PyDict(<<Item(PyUnicode(<<"k">>), PyUnicode(<<"v">>))>>)
\* extra_fields={'k': 'w'}
OtherExtraFields == PyDict(<<Item(PyStr(<<"k">>), PyStr(<<"w">>))>>)

LogFieldArgs(field, description) == [field |-> field, description |-> description]

RegOptions == {ThresholdOption, RequiredOption, PlainOption}
RegMetrics ==
    { MetricArgs(<<"a">>, x) :
        x \in {PyNone, SomeExtraFields, UnicodeExtraFields, OtherExtraFields} }
RegLogFields == {LogFieldArgs("x", <<"d">>)}
RegDescriptions == {<<"t">>}

ValOptions ==
    {ThresholdOption, RequiredOption, BoundedOption, PlainOption, BadDefaultOption}

\* The documents validated: none has a sample_interval.
ValContents ==
    { <<>>,
      ModuleEntry,
      WithEntry("f", PyStr(<<"1", "5", ".", "5">>)),
      WithEntry("f", PyInt(5)),
      WithEntry("f", PyInt(10)),
      WithEntry("f", PyFloat(5)),
      WithEntry("g", PyStr(<<"a", "b", "c">>)),
      WithEntry("h", PyInt(5)),
      [k \in {"module"} |-> ModuleN] }

\* An empty registry, and a document for a constructor call.
InitRegistry ==
    /\ RunInit /\ CtrInit /\ HistInit /\ OutInit /\ RegInit /\ FatalInit
    /\ content \in {ModuleEntry, [k \in {"module"} |-> ModuleN]}
    /\ cfgMap = <<>>
    /\ getArgs = <<>>
    /\ getOut = NotCalled
    /\ override = PyNone
    /\ constructed = "no"
    /\ sample_interval_secs = PyNone
    /\ hook = "ok"
    /\ ctorOut = NotCalled
    /\ cfgModule = <<>>
    /\ opOut = NoRead
    /\ cfgCopy = <<>>

NextRegistry ==
    \/ \E o \in RegOptions : DefineConfigOption(ModuleM, o)
    \/ DefineConfigOption(ModuleN, RequiredOption)
    \/ \E d \in RegMetrics : DefineMetric(ModuleM, d)
    \/ \E l \in RegLogFields : DefineLogField(ModuleM, l)
    \/ \E text \in RegDescriptions : SetDescription(ModuleM, text)
    \/ \E m \in Modules : Lookup(m)
    \/ Construct

SpecRegistry == InitRegistry /\ [][NextRegistry]_vars

\* The caller starts the monitor it has constructed.
StartMonitor ==
    /\ constructed = "ok"
    /\ Start

\* An empty registry, a document and an _initialize.
InitValidate ==
    /\ RunInit /\ CtrInit /\ HistInit /\ OutInit /\ RegInit /\ FatalInit
    /\ content \in ValContents
    /\ cfgMap = <<>>
    /\ getArgs = <<>>
    /\ getOut = NotCalled
    /\ override = PyNone
    /\ constructed = "no"
    /\ sample_interval_secs = PyNone
    /\ hook \in {"ok", "raises"}
    /\ ctorOut = NotCalled
    /\ cfgModule = <<>>
    /\ opOut = NoRead
    /\ cfgCopy = <<>>

NextValidate ==
    \/ \E o \in ValOptions : DefineConfigOption(ModuleM, o)
    \/ DefineConfigOption(ModuleN, RequiredOption)
    \/ \E m \in Modules : ConstructConfig(m)
    \/ Construct
    \/ StartMonitor

SpecValidate == InitValidate /\ [][NextValidate]_vars

\* The documents, options and get arguments a MonitorConfig is read with.
ConfigContents ==
    { ModuleEntry, WithEntry("f", PyStr(<<"1", "5", ".", "5">>)),
      WithEntry("f", PyInt(5)), WithEntry("f", PyList), WithEntry("f", PyNone) }
ConfigOptions == {ThresholdOption, RequiredOption}
ConfigFields == {"f", "h"}
ConfigGetArgs ==
    [field : ConfigFields, required_field : BOOLEAN, max_value : {PyNone, PyInt(5)},
     min_value : {PyNone}, convert_to : {NoConvert, "int"}, default : {PyNone, PyInt(10)}]

\* An empty registry, a document and the arguments of a get.
InitConfig ==
    /\ RunInit /\ CtrInit /\ HistInit /\ OutInit /\ RegInit /\ FatalInit
    /\ content \in ConfigContents
    /\ cfgMap = <<>>
    /\ getArgs \in ConfigGetArgs
    /\ getOut = NotCalled
    /\ override = PyNone
    /\ constructed = "no"
    /\ sample_interval_secs = PyNone
    /\ hook = "ok"
    /\ ctorOut = NotCalled
    /\ cfgModule = <<>>
    /\ opOut = NoRead
    /\ cfgCopy = <<>>

\* MonitorConfig(content, monitor_module) returned a configuration.
Built == cfgModule # <<>> /\ ctorOut.ok

\* Options are registered, a MonitorConfig is constructed and then read.
NextConfig ==
    \/ \E o \in ConfigOptions : DefineConfigOption(ModuleM, o)
    \/ ConstructConfig(ModuleM)
    \/ Built /\ DoGet
    \/ Built /\ \E key \in ConfigFields : ConfigContains(key)
    \/ Built /\ ConfigItems
    \/ Built /\ \E field \in ConfigFields : ConfigGetItem(field)
    \/ Built /\ ConfigCopy

SpecConfig == InitConfig /\ [][NextConfig]_vars

----------------------------------------------------------------------------
(* The run state of the data model, read off the thread and the flag.      *)

run_state ==
    IF pc = "NotStarted" THEN "NotStarted"
    ELSE IF pc = "done" THEN "Stopped"
    ELSE IF is_running THEN "Running"
    ELSE "StopRequested"

----------------------------------------------------------------------------
(* Properties of the sampling loop and the counters.                       *)

AllIdle == \A t \in Threads : ipc[t] = "idle"

C2_StopDuringSample ==
    stopAt = "gather" =>
        /\ begunAfterStop = 0
        /\ pc \in {"gather", "inc", "sleep", "check", "done"}

\* C2 witness: the stop arrived during a sample and the loop has ended.
C2_Witness ==
    /\ stopAt = "gather"
    /\ pc = "done"
    /\ samples = 1

\* C3: once a stop request has been made, the loop eventually ends and logs
\* 'Monitor has finished' -- without the sleep's interval having to elapse.
C3_StopTerminates == (stopAt # "none") ~> (pc = "done" /\ finished)

\* C3 witness: the request arrived during the sleep that followed a failed
\* sample, and the loop has ended with the notice.
C3_Witness ==
    /\ stopAt = "sleep"
    /\ lastOutcome = "raised"
    /\ pc = "done"
    /\ finished

\* C4: when no increment_counter call is in progress, reported_lines() is the
\* sum of the reported_lines deltas and errors() the sum of the errors deltas
\* of all the calls made (the loop's own calls included).
C4_NoLostUpdate ==
    AllIdle => (reported_lines = sumR /\ errors = sumE)

\* C4 witness: two other callers and the loop have each completed a call.
C4_Witness ==
    /\ AllIdle
    /\ calls = 2
    /\ failed >= 1
    /\ sumR >= 3
    /\ sumE >= 2

C6_RunStateForward ==
    [][ /\ (run_state' # run_state) =>
              <<run_state, run_state'>> \in
                  { <<"NotStarted", "Running">>,
                    <<"Running", "StopRequested">>,
                    <<"StopRequested", "Stopped">> }
        /\ (run_state # "Stopped" /\ run_state' = "Stopped") => (pc = "check" /\ finished')
        /\ (run_state = "Stopped") =>
              (run_state' = "Stopped" /\ samples' = samples /\ pc' = pc)
      ]_vars

\* C6 witness: the monitor ran, sampled, was stopped and has ended.
C6_Witness ==
    /\ run_state = "Stopped"
    /\ samples >= 1
    /\ stopAt # "none"

----------------------------------------------------------------------------
(* Properties of the metric log.                                           *)

RECURSIVE Count(_, _)
Count(x, seq) ==
    IF seq = <<>> THEN 0
    ELSE (IF Head(seq) = x THEN 1 ELSE 0) + Count(x, Tail(seq))

Last(seq) == seq[Len(seq)]

\* C7 as stated: the sink is opened at most once between two closes.
C7_OpenGuarded == sinkOpens <= sinkCloses + 1

\* C7, amended: open_metric_log is not guarded by the flag. Every call opens
\* the sink once and leaves the flag set, whether or not it was set before.
C7_OpenUnguarded ==
    /\ sinkOpens = Count("open", outCalls)
    /\ (outCalls # <<>> /\ Last(outCalls) = "open") => metric_log_open

\* C7 witness: open_metric_log was called twice with no close in between.
C7_Witness ==
    /\ outCalls = <<"open", "open">>
    /\ sinkOpens = 2
    /\ metric_log_open

\* C8: a close_metric_log call closes the sink exactly when the flag is set,
\* and leaves the flag clear; it changes nothing when the log was never
\* opened, and does not close the sink when the call before it was a close.
C8_CloseGuarded ==
    [][ (outCalls' = Append(outCalls, "close")) =>
            /\ sinkCloses' = IF metric_log_open THEN sinkCloses + 1 ELSE sinkCloses
            /\ ~metric_log_open'
            /\ sinkOpens' = sinkOpens
            /\ (sinkOpens = 0) => (sinkCloses' = 0 /\ metric_log_open' = metric_log_open)
            /\ (outCalls # <<>> /\ Last(outCalls) = "close") => sinkCloses' = sinkCloses
      ]_vars

\* C8 witness: of two consecutive closes after an open, one closed the sink.
C8_Witness ==
    /\ outCalls = <<"open", "close", "close">>
    /\ sinkCloses = 1
    /\ ~metric_log_open

----------------------------------------------------------------------------
(* Properties of the configuration.                                        *)

\* The halves of the float a value converts to.
AsFloatHalves(v) ==
    IF Textual(v) THEN ParseFloat(v.s).n
    ELSE IF v.t = "float" THEN v.n
    ELSE 2 * RoundToFloat(v.n)

C10_RequiredAbsentFails ==
    (getOut # NotCalled /\ getArgs.required_field /\ getArgs.field \notin DOMAIN cfgMap) =>
        /\ ~getOut.ok
        /\ getOut = BadMonitorConfiguration("missing required field", FieldName(getArgs.field))

\* C10 witness: the call was made with a default, a conversion and bounds.
C10_Witness ==
    /\ getOut # NotCalled
    /\ getArgs.required_field
    /\ getArgs.field \notin DOMAIN cfgMap
    /\ getArgs.default = PyInt(10)
    /\ getArgs.convert_to = "float"
    /\ getArgs.max_value # PyNone
    /\ getArgs.min_value # PyNone
    /\ ~getOut.ok

----------------------------------------------------------------------------
(* Properties of get's conversions and bounds.                             *)

Called == getOut # NotCalled
\* get goes past its required-field test (line 682).
Looked == ~(getArgs.required_field /\ getArgs.field \notin DOMAIN cfgMap)
\* The value get resolves (line 684).
Resolved ==
    IF getArgs.field \in DOMAIN cfgMap THEN cfgMap[getArgs.field] ELSE getArgs.default
NoBounds == getArgs.max_value = PyNone /\ getArgs.min_value = PyNone
RangeKinds == {"above maximum", "below minimum"}

Narrowing(from, to) ==
    \/ to = "int" /\ from \in {"float", "long"}
    \/ to = "long" /\ from = "float"

Widening(from, to) ==
    \/ to = "float" /\ from \in {"int", "long"}
    \/ to = "long" /\ from = "int"

C13_TextToBool ==
    (Called /\ Looked /\ Textual(Resolved) /\ getArgs.convert_to = "bool" /\ NoBounds) =>
        /\ getOut.ok
        /\ getOut.val = PyBool(Lower(Resolved.s) = <<"t", "r", "u", "e">>)
        /\ Resolved.s \in {<<"f", "a", "l", "s", "e">>, <<"n", "o">>, <<"1">>}
              => getOut.val = PyBool(FALSE)

\* C13 witness: a unicode text with a character outside ASCII made the
\* conversion raise UnicodeEncodeError.
C13_Witness ==
    /\ Called
    /\ getArgs.field \in DOMAIN cfgMap
    /\ cfgMap[getArgs.field] = PyUnicode(<<NonAsciiChar>>)
    /\ getArgs.convert_to = "bool"
    /\ NoBounds
    /\ getOut = UnicodeEncodeError

\* The value the bounds are applied to: the resolved value after conversion.
Converted ==
    IF getArgs.convert_to # NoConvert /\ Resolved.t # getArgs.convert_to
      THEN perform_conversion(getArgs.field, Resolved, getArgs.convert_to)
      ELSE Returned(Resolved)
AboveMax(v) == getArgs.max_value # PyNone /\ Greater(v, getArgs.max_value)
BelowMin(v) == getArgs.min_value # PyNone /\ Less(v, getArgs.min_value)
EqualTo(v, bound) == bound # PyNone /\ Numeric(v) /\ Numeric(bound) /\ Scaled(v) = Scaled(bound)

\* C14 as stated: the bounds are applied to the converted value. A value
\* greater than max_value raises the above-maximum BadMonitorConfiguration for
\* the field; one that is not, and is less than min_value, the below-minimum
\* one; a value equal to max_value or to min_value (and within the other
\* bound) is returned.
C14_BoundsAfterConversion ==
    (Called /\ Looked /\ Resolved # PyNone /\ Converted.ok) =>
        LET v == Converted.val
        IN  /\ AboveMax(v) =>
                  getOut = BadMonitorConfiguration("above maximum", FieldName(getArgs.field))
            /\ (~AboveMax(v) /\ BelowMin(v)) =>
                  getOut = BadMonitorConfiguration("below minimum", FieldName(getArgs.field))
            /\ (~AboveMax(v) /\ ~BelowMin(v)) => getOut = Returned(v)
            /\ (EqualTo(v, getArgs.max_value) /\ ~BelowMin(v)) => getOut = Returned(v)
            /\ (EqualTo(v, getArgs.min_value) /\ ~AboveMax(v)) => getOut = Returned(v)

\* C14 witness: a unicode text with a character outside ASCII is above the
\* maximum, and building the error's message raised UnicodeEncodeError.
C14_Witness ==
    /\ Called
    /\ getArgs.field \in DOMAIN cfgMap
    /\ cfgMap[getArgs.field] = PyUnicode(<<NonAsciiChar>>)
    /\ getArgs.convert_to = NoConvert
    /\ getArgs.max_value = PyInt(5)
    /\ getOut = UnicodeEncodeError

----------------------------------------------------------------------------
(* Properties of the validated configuration and of construction.          *)

\* The options registered for a module.
OptionsOf(monitor_module) ==
    IF monitor_module \in DOMAIN monitor_info
      THEN Values(monitor_info[monitor_module].options)
      ELSE {}

\* The options of a module that a document makes get be called for.
Applicable(monitor_module, document) ==
    { x \in OptionsOf(monitor_module) :
        x.required_option \/ x.default # PyNone \/ x.option_name \in DOMAIN document }

\* get under the option's name with the option's rules, on the document.
RuleResult(x, document) ==
    get(document, x.option_name, x.required_option, x.max_value, x.min_value,
        x.convert_to, x.default)

Valid(monitor_module, document) ==
    \A x \in Applicable(monitor_module, document) : RuleResult(x, document).ok

\* C15: MonitorConfig(content, monitor_module) stores, for every option of
\* the module that is required, has a default that is not None or is a key of
\* content, what get returns for it with the option's rules (a default is
\* converted and checked against the bounds like a value of the document);
\* every other key of content keeps its value; an option that is not
\* required, has no default and is not in content is not a key. When one of
\* these get calls raises, the constructor raises that exception.
C15_ValidatedConfiguration ==
    [][ (cfgModule = <<>> /\ cfgModule' # <<>>) =>
          LET monitor_module == cfgModule'[1]
              applicable == Applicable(monitor_module, content)
              names == {x.option_name : x \in applicable}
          IN  IF Valid(monitor_module, content)
                THEN /\ ctorOut'.ok
                     /\ DOMAIN cfgMap' = DOMAIN content \cup names
                     /\ \A x \in applicable :
                            cfgMap'[x.option_name] = RuleResult(x, content).val
                     /\ \A k \in DOMAIN content \ names : cfgMap'[k] = content[k]
                     /\ \A x \in OptionsOf(monitor_module) \ applicable :
                            x.option_name \notin DOMAIN cfgMap'
                ELSE /\ ~ctorOut'.ok
                     /\ \E x \in applicable :
                            ~RuleResult(x, content).ok /\ ctorOut' = RuleResult(x, content)
      ]_vars

\* C15 witness: an empty document was validated against a float option with
\* the default 10 and an option without default: the first is 10.0 in the
\* result, the second is not a key.
C15_Witness ==
    /\ cfgModule = <<ModuleM>>
    /\ content = <<>>
    /\ ctorOut.ok
    /\ DOMAIN cfgMap = {"f"}
    /\ cfgMap["f"] = PyFloat(20)
    /\ {x.option_name : x \in OptionsOf(ModuleM)} = {"f", "g"}

\* C16: ScalyrMonitor(...) raises when an option's rule fails on the
\* configuration (the exception is that of the rule's get) and when
\* _initialize raises (the exception is _initialize's); a monitor is
\* constructed only when neither does. Without a constructed monitor the
\* thread is never started and no gather_sample invocation begins.
C16_ConstructionFails ==
    [][ /\ (constructed = "no" /\ constructed' # "no" /\ "module" \in DOMAIN content) =>
              LET monitor_module == content["module"]
                  applicable == Applicable(monitor_module, content)
              IN  /\ ~Valid(monitor_module, content) =>
                        /\ constructed' = "raised"
                        /\ \E x \in applicable :
                               ~RuleResult(x, content).ok /\ ctorOut' = RuleResult(x, content)
                  /\ (Valid(monitor_module, content) /\ hook = "raises") =>
                        (constructed' = "raised" /\ ~ctorOut'.ok)
                  /\ (Valid(monitor_module, content) /\ hook = "raises"
                        /\ init_sample_interval(cfgMap', override).ok) => ctorOut' = HookError
                  /\ (constructed' = "ok") =>
                        (Valid(monitor_module, content) /\ hook = "ok" /\ ctorOut'.ok)
        /\ (constructed' # "ok") => (pc' = "NotStarted" /\ samples' = 0)
      ]_vars

\* C16 witness: a required option is missing from the document, and the
\* constructor raised the missing-field error.
C16_Witness ==
    /\ constructed = "raised"
    /\ ctorOut = BadMonitorConfiguration("missing required field", FieldName("f"))
    /\ "f" \notin DOMAIN content
    /\ pc = "NotStarted"

----------------------------------------------------------------------------
(* Properties of MonitorInformation.                                       *)

RECURSIVE CallsFor(_, _)
\* The set_monitor_info calls made for a module, in order.
CallsFor(monitor_module, log) ==
    IF log = <<>> THEN <<>>
    ELSE IF Head(log).module = monitor_module
      THEN <<Head(log)>> \o CallsFor(monitor_module, Tail(log))
      ELSE CallsFor(monitor_module, Tail(log))

Registered(monitor_module, log) == \E i \in DOMAIN log : log[i].module = monitor_module

\* list holds exactly the descriptors stored, in strictly ascending sort_pos.
ExactlyInOrder(list, stored) ==
    /\ {list[i] : i \in DOMAIN list} = stored
    /\ Len(list) = Cardinality(stored)
    /\ \A i \in DOMAIN list : i < Len(list) => list[i].sort_pos < list[i + 1].sort_pos

\* The key a registration of some kind is identified by.
SameItem(kind, x, given) ==
    CASE kind = "option" -> x.option_name = given.option_name
      [] kind = "metric" -> x.metric_name = given.metric_name
                            /\ x.extra_fields = given.extra_fields
      [] kind = "log_field" -> x.field = given.field

\* Each descriptor of list is stamped with the position of the latest call
\* that registered it, and every registration of the kind is in list.
StampedByLatest(kind, list, made) ==
    /\ \A i \in DOMAIN list :
          LET x == list[i]
          IN  /\ x.sort_pos \in DOMAIN made
              /\ made[x.sort_pos].kind = kind
              /\ SameItem(kind, x, made[x.sort_pos].item)
              /\ \A j \in DOMAIN made :
                    (j > x.sort_pos /\ made[j].kind = kind) => ~SameItem(kind, x, made[j].item)
    /\ \A j \in DOMAIN made :
          made[j].kind = kind => \E i \in DOMAIN list : SameItem(kind, list[i], made[j].item)

\* C17: for every module, the record's counter is the number of
\* set_monitor_info calls made for it; config_options, metrics and log_fields
\* each return exactly the descriptors stored, in strictly ascending sort_pos
\* (so no two share one); and each descriptor's sort_pos is the position of
\* the latest call that registered it.
C17_InsertionOrder ==
    \A m \in DOMAIN monitor_info :
        LET info == monitor_info[m]
            made == CallsFor(m, regLog)
        IN  /\ info.counter = Len(made)
            /\ ExactlyInOrder(config_options(info), Values(info.options))
            /\ ExactlyInOrder(metrics(info), Values(info.metrics))
            /\ ExactlyInOrder(log_fields(info), Values(info.log_fields))
            /\ StampedByLatest("option", config_options(info), made)
            /\ StampedByLatest("metric", metrics(info), made)
            /\ StampedByLatest("log_field", log_fields(info), made)

\* C17 witness: option g, a metric and option f were registered in this
\* order: config_options returns g before f, with the stamps 1 and 3.
C17_Witness ==
    /\ ModuleM \in DOMAIN monitor_info
    /\ Len(config_options(monitor_info[ModuleM])) = 2
    /\ config_options(monitor_info[ModuleM])[1].option_name = "g"
    /\ config_options(monitor_info[ModuleM])[1].sort_pos = 1
    /\ config_options(monitor_info[ModuleM])[2].option_name = "f"
    /\ config_options(monitor_info[ModuleM])[2].sort_pos = 3
    /\ Len(metrics(monitor_info[ModuleM])) = 1

RECURSIVE WithoutOption(_, _)
\* list without the descriptor of the option called name.
WithoutOption(list, name) ==
    IF list = <<>> THEN <<>>
    ELSE IF Head(list).option_name = name THEN WithoutOption(Tail(list), name)
    ELSE <<Head(list)>> \o WithoutOption(Tail(list), name)

OptionsBefore(monitor_module) ==
    IF monitor_module \in DOMAIN monitor_info
      THEN config_options(monitor_info[monitor_module])
      ELSE <<>>

\* C18: a define_config_option call leaves the module with one descriptor
\* of that name, carrying the rules of this call, as the last element of
\* config_options; the other descriptors are those there were, in their
\* order. An option registered again is thus replaced and moves to the end.
C18_ReRegistration ==
    [][ (Len(regLog') = Len(regLog) + 1 /\ Last(regLog').kind = "option") =>
          LET call == Last(regLog')
              name == call.item.option_name
              before == OptionsBefore(call.module)
              after == config_options(monitor_info'[call.module])
              new == Last(after)
          IN  /\ after # <<>>
              /\ after = WithoutOption(before, name) \o <<new>>
              /\ Cardinality({i \in DOMAIN after : after[i].option_name = name}) = 1
              /\ new.option_name = name
              /\ new.required_option = call.item.required_option
              /\ new.convert_to = call.item.convert_to
              /\ new.default = call.item.default
              /\ new.max_value = call.item.max_value
              /\ new.min_value = call.item.min_value
              /\ \A i \in DOMAIN before : before[i].sort_pos < new.sort_pos
      ]_vars

\* C18 witness: option f was registered, then g, then f again with other
\* rules: config_options returns g, then the required f.
C18_Witness ==
    /\ Len(regLog) = 3
    /\ \A i \in DOMAIN regLog : regLog[i].module = ModuleM /\ regLog[i].kind = "option"
    /\ regLog[1].item = ThresholdOption
    /\ regLog[2].item = PlainOption
    /\ regLog[3].item = RequiredOption
    /\ Len(config_options(monitor_info[ModuleM])) = 2
    /\ config_options(monitor_info[ModuleM])[1].option_name = "g"
    /\ config_options(monitor_info[ModuleM])[2].option_name = "f"
    /\ config_options(monitor_info[ModuleM])[2].required_option

\* C19: get_monitor_info returns the module's record when a set_monitor_info
\* call was made for the module and None otherwise, and changes nothing; only
\* a set_monitor_info call changes the registry, so a module has a record
\* exactly when a call was made for it, however many lookups and
\* constructions were made.
C19_LookupReadsOnly ==
    [][ /\ (monitor_info' # monitor_info) => Len(regLog') = Len(regLog) + 1
        /\ (lookupOut' # lookupOut) =>
              /\ monitor_info' = monitor_info
              /\ lookupOut'.ret =
                    IF Registered(lookupOut'.module, regLog)
                      THEN <<monitor_info[lookupOut'.module]>>
                      ELSE <<>>
        /\ \A m \in Modules : (m \in DOMAIN monitor_info') <=> Registered(m, regLog')
      ]_vars

\* C19 witness: a module without registration was looked up, and a monitor of
\* that module was constructed; it still has no record, and the lookup
\* returned None.
C19_Witness ==
    /\ lookupOut = [module |-> ModuleN, ret |-> <<>>]
    /\ constructed = "ok"
    /\ content["module"] = ModuleN
    /\ ModuleN \notin DOMAIN monitor_info
    /\ ModuleM \in DOMAIN monitor_info

----------------------------------------------------------------------------
(* Properties of the outer except of run().                                *)

----------------------------------------------------------------------------
(* The refused conversions of get.                                         *)

\* C21 as stated: when get refuses a narrowing conversion, the exception's
\* field attribute is the field name passed to get, as for every other
\* BadMonitorConfiguration get raises.
C21_NarrowingField ==
    (Called /\ Looked /\ Narrowing(Resolved.t, getArgs.convert_to)) =>
        /\ getOut.exc = "BadMonitorConfiguration"
        /\ getOut.field = FieldName(getArgs.field)

\* C21 witness: a narrowing was refused, and the field attribute of the
\* exception is the tuple of the message's arguments, not the field name.
C21_Witness ==
    /\ Called
    /\ getArgs.field \in DOMAIN cfgMap
    /\ cfgMap[getArgs.field] = PyFloat(20)
    /\ getArgs.convert_to = "int"
    /\ getOut.exc = "BadMonitorConfiguration"
    /\ getOut.field = FieldTuple(getArgs.field)

\* A conversion is attempted: the value resolved is not None and its type is
\* not the one asked for (lines 686-690).
Attempted ==
    /\ Called /\ Looked
    /\ Resolved # PyNone
    /\ getArgs.convert_to # NoConvert
    /\ Resolved.t # getArgs.convert_to

\* The pairs of types the conversion rules name: anything primitive to a text,
\* a text to bool or to a number type, a number to bool, the widenings and the
\* narrowings.
ListedRule(from, to) ==
    \/ from \in primitive_types /\ to \in {"str", "unicode"}
    \/ from \in {"str", "unicode"} /\ to \in {"bool", "int", "long", "float"}
    \/ from \in {"int", "long", "float"} /\ to = "bool"
    \/ Widening(from, to)
    \/ Narrowing(from, to)

\* C22 as stated: a conversion between types that no rule names (a bool to
\* int, long or float among them) raises the unable-to-convert-type
\* BadMonitorConfiguration for the field.
C22_UnsupportedConversion ==
    (Attempted /\ ~ListedRule(Resolved.t, getArgs.convert_to)) =>
        getOut = BadMonitorConfiguration("unable to convert type", FieldName(getArgs.field))

\* C22, amended: a bool with convert_to int, long or float is refused with
\* the error of a narrowing conversion (a numeric value was given but another
\* type is required); the unable-to-convert-type error is raised for a value
\* whose type is not primitive and a primitive convert_to; a convert_to that
\* is not primitive raises a plain Exception, not a BadMonitorConfiguration.
C22_RefusedConversions ==
    Attempted =>
        /\ (Resolved.t = "bool" /\ getArgs.convert_to \in {"int", "long", "float"}) =>
              /\ getOut.exc = "BadMonitorConfiguration"
              /\ getOut.kind = "numeric value given but another type is required"
        /\ (Resolved.t \notin primitive_types /\ getArgs.convert_to \in primitive_types) =>
              getOut = BadMonitorConfiguration("unable to convert type",
                                               FieldName(getArgs.field))
        /\ getArgs.convert_to \notin primitive_types =>
              getOut = Raised("Exception", "unsupported type for conversion", NoField)

\* C22 witness: True with convert_to int was refused as a numeric value of
\* another type.
C22_Witness ==
    /\ Called
    /\ getArgs.field \in DOMAIN cfgMap
    /\ cfgMap[getArgs.field] = PyBool(TRUE)
    /\ getArgs.convert_to = "int"
    /\ getOut.exc = "BadMonitorConfiguration"
    /\ getOut.kind = "numeric value given but another type is required"

\* C23: when the value get resolves is None (the field is absent and the
\* default is None, or the value stored is None), get returns None whatever
\* convert_to, max_value and min_value are: it raises nothing.
C23_NoneReturned ==
    (Called /\ Looked /\ Resolved = PyNone) => getOut = Returned(PyNone)

\* C23 witness: a stored None was returned by a get that asked for an int
\* not less than 0, which None is neither.
C23_Witness ==
    /\ Called
    /\ getArgs.field \in DOMAIN cfgMap
    /\ cfgMap[getArgs.field] = PyNone
    /\ getArgs.convert_to = "int"
    /\ getArgs.min_value = PyInt(0)
    /\ getArgs.max_value = PyInt(5)
    /\ getOut = Returned(PyNone)

\* C24: get with convert_to bool on an int, a long or a float raises the
\* BadMonitorConfiguration for a numeric value given for a boolean field,
\* with the field's name, whatever the value (0, 1 and 1.0 included) and
\* whatever the bounds; it returns nothing.
C24_NumericToBool ==
    (Called /\ Looked /\ Resolved.t \in {"int", "long", "float"}
        /\ getArgs.convert_to = "bool") =>
        /\ getOut = BadMonitorConfiguration("numeric value given for boolean field",
                                            FieldName(getArgs.field))
        /\ getOut.val = PyNone

\* C24 witness: the int 1 was refused as a boolean.
C24_Witness ==
    /\ Called
    /\ getArgs.field \in DOMAIN cfgMap
    /\ cfgMap[getArgs.field] = PyInt(1)
    /\ getArgs.convert_to = "bool"
    /\ ~getOut.ok
    /\ getOut.kind = "numeric value given for boolean field"

----------------------------------------------------------------------------
(* The metrics of a module.                                                *)

\* a == b for two primitive values: numbers by their value, texts by their
\* characters (a str and a unicode are equal when they are the same ASCII
\* text).
PyEq(a, b) ==
    IF Numeric(a) /\ Numeric(b) THEN Scaled(a) = Scaled(b)
    ELSE IF Textual(a) /\ Textual(b)
      THEN a.s = b.s /\ (a.t = b.t \/ IsAscii(a.s))
    ELSE a = b

\* a == b for two dicts: the same keys with the same values.
DictEq(a, b) ==
    /\ Len(a.items) = Len(b.items)
    /\ \A i \in DOMAIN a.items : \E j \in DOMAIN b.items :
          PyEq(a.items[i].key, b.items[j].key) /\ PyEq(a.items[i].val, b.items[j].val)

\* Two registrations have the same extra_fields: both have none, or their
\* dicts are equal.
SameExtraFields(a, b) ==
    IF a = PyNone \/ b = PyNone THEN a = b ELSE DictEq(a, b)

SameMetric(x, y) ==
    x.metric_name = y.metric_name /\ SameExtraFields(x.extra_fields, y.extra_fields)

\* The j-th set_monitor_info call made for a module registered a metric that
\* a later call registered again.
RegisteredAgain(made, j) ==
    \E k \in DOMAIN made :
        k > j /\ made[k].kind = "metric" /\ SameMetric(made[j].item, made[k].item)

\* metrics returns the descriptor the j-th call stored.
Retained(list, made, j) ==
    \E i \in DOMAIN list :
        /\ list[i].sort_pos = j
        /\ list[i].metric_name = made[j].item.metric_name
        /\ list[i].extra_fields = made[j].item.extra_fields

\* C25 as stated: metrics returns the descriptor of a define_metric call
\* exactly when no later call for the module gave the same metric name with
\* the same extra_fields; so registrations of one name with different
\* extra_fields are all returned, and one with the same extra_fields (or both
\* without) replaces the earlier.
C25_MetricKeys ==
    \A m \in DOMAIN monitor_info :
        LET made == CallsFor(m, regLog)
            list == metrics(monitor_info[m])
        IN  \A j \in DOMAIN made :
                made[j].kind = "metric" =>
                    (Retained(list, made, j) <=> ~RegisteredAgain(made, j))

\* C25 witness: metric a was registered with {'k': 'v'} and then with the
\* equal dict {u'k': u'v'}, and metrics returns both descriptors.
C25_Witness ==
    /\ ModuleM \in DOMAIN monitor_info
    /\ Len(regLog) = 2
    /\ regLog[1] = Registration(ModuleM, "metric", MetricArgs(<<"a">>, SomeExtraFields))
    /\ regLog[2] = Registration(ModuleM, "metric", MetricArgs(<<"a">>, UnicodeExtraFields))
    /\ DictEq(SomeExtraFields, UnicodeExtraFields)
    /\ Len(metrics(monitor_info[ModuleM])) = 2

----------------------------------------------------------------------------
(* The MonitorConfig is read-only.                                         *)

\* C26: constructing a MonitorConfig leaves the dict it is given as it was,
\* and once it is constructed no call changes its map: a get (one that
\* returns a default for an absent field or raises included), a membership
\* test, an enumeration, an indexed lookup, a copy, and a registration made
\* afterwards all leave its keys and values as they were. The copy has the
\* same keys and values.
C26_ReadOnly ==
    [][ /\ content' = content
        /\ Built => cfgMap' = cfgMap
        /\ (cfgCopy' # cfgCopy) => (cfgCopy' = <<cfgMap>> /\ cfgMap' = cfgMap)
        /\ (cfgModule = <<>> /\ cfgModule' # <<>> /\ ctorOut'.ok) =>
              \A k \in DOMAIN content : k \in DOMAIN cfgMap'
      ]_vars

\* C26 witness: a get returned its default for a field the configuration
\* does not have, a lookup of the field raised KeyError, a copy was made, and
\* the configuration still does not have the field.
C26_Witness ==
    /\ Built
    /\ getArgs.field \notin DOMAIN cfgMap
    /\ getOut = Returned(PyInt(10))
    /\ opOut = Read("getitem", getArgs.field,
                    Raised("KeyError", "missing field in monitor config", NoField))
    /\ cfgCopy = <<cfgMap>>

----------------------------------------------------------------------------
(* The loop and a stop request, whenever it arrives.                       *)

\* C27: at most one gather_sample invocation begins after the first stop
\* request, and one begins only when the request arrived between the loop's
\* test and the call: a request that arrives before the test, during a
\* sample, in the handler of a failed sample or during the sleep is followed
\* by none.
C27_AtMostOneAfterStop ==
    /\ begunAfterStop <= 1
    /\ begunAfterStop = 1 => stopAt = "call"
    /\ stopAt \in {"check", "gather", "inc", "sleep", "done"} => begunAfterStop = 0

\* C27 witness: the request arrived after the loop's test had let the second
\* sample through; that sample began, and the loop ended after it.
C27_Witness ==
    /\ stopAt = "call"
    /\ begunAfterStop = 1
    /\ samples = 2
    /\ pc = "done"
    /\ finished

----------------------------------------------------------------------------
(* The metric log over any sequence of calls.                              *)

RECURSIVE LastReturned(_)
\* The last open_metric_log or close_metric_log call that returned, or "none".
LastReturned(seq) ==
    IF seq = <<>> THEN "none"
    ELSE IF Last(seq) \in {"open", "close"} THEN Last(seq)
    ELSE LastReturned(SubSeq(seq, 1, Len(seq) - 1))

\* C29: after any sequence of open_metric_log and close_metric_log calls, of
\* which some may have raised, the sink was closed at most as many times as
\* it was opened, and the flag is set exactly when the last call that
\* returned was an open_metric_log (it is clear before any call).
C29_SinkBalance ==
    /\ sinkCloses <= sinkOpens
    /\ metric_log_open <=> (LastReturned(outCalls) = "open")

\* C29 witness: two opens, a close that raised, a close, a second close and an
\* open that raised: the sink was opened twice and closed once, and the flag
\* is clear.
C29_Witness ==
    /\ outCalls = <<"open", "open", "close raised", "close", "close", "open raised">>
    /\ sinkOpens = 2
    /\ sinkCloses = 1
    /\ ~metric_log_open

====
